---------------------------- MODULE Spec2Model ----------------------------
(***************************************************************************)
(* A model of the usage telemetry engine of minimax-status:                *)
(*   - the billing paginator      (src/cli/api.js, getAllBillingRecords)   *)
(*   - the quota response cache   (src/cli/api.js, getUsageStatus)         *)
(*   - the usage aggregator       (src/cli/api.js, calculateUsageStats)    *)
(*   - the snapshot parser        (src/cli/api.js, parseUsageData)         *)
(*   - the transcript resolver    (src/unnamed/part_000)                   *)
(*   - the subscription lookup    (src/cli/api.js, getSubscriptionDetails) *)
(*   - the refresh cycle          (src/vscode-extension/extension.js)      *)
(* Each component has its own specification over the shared variables; a   *)
(* component that a specification does not exercise stays in its idle      *)
(* state.                                                                  *)
(***************************************************************************)
EXTENDS Integers, Sequences, FiniteSets, TLC

VARIABLES
  \* ---- billing paginator (getAllBillingRecords) ----
  bpc,          \* position of the call: "idle", "loop", "await", "done"
  maxPages,     \* the argument of getAllBillingRecords
  page,         \* the loop variable
  allRecords,   \* the accumulator
  issued,       \* page numbers of the requests issued so far, in order
  replies,      \* the outcome of each request answered so far, in order
  bresult,      \* what the call gave its caller once it is done
  \* ---- quota response cache (getUsageStatus) ----
  token,        \* this.token is set (truthy)
  groupId,      \* this.groupId is set (truthy)
  cache,        \* this.cache: [data, timestamp]; data 0 is null
  clock,        \* Date.now()
  ticks,        \* how often the clock has advanced
  calls,        \* per caller, its getUsageStatus call
  ncalls,       \* getUsageStatus calls started so far
  nreq,         \* quota requests issued so far; names the payload of each
  \* ---- usage aggregator (calculateUsageStats) ----
  spc,          \* "idle", "ready" (arguments chosen) or "done"
  records,      \* the billing records passed in
  planStartTime,\* the plan window passed in, in ms
  planEndTime,
  statsNow,     \* Date.now() as calculateUsageStats reads it
  stats,        \* the statistics returned
  \* ---- snapshot parser (parseUsageData) ----
  ppc,          \* "idle", "ready" (arguments chosen) or "done"
  apiData,      \* the quota payload passed in
  subscriptionData, \* the subscription payload passed in
  parseNow,     \* new Date() as parseUsageData reads it
  parsed,       \* what parseUsageData gave: an error or a snapshot
  \* ---- transcript resolver (parseTranscriptUsage) ----
  tpc,          \* "idle", "setup" (the directory is being written) or "done"
  fs,           \* the project directory: per file name, whether it is
                \* there and its lines
  transcriptPath, \* the path parseTranscriptUsage was called with
  mtime,        \* what fs.stat gave the call as mtime of each file
  attempted,    \* the files tryFindUsageFromProjectHistory tried, in order
  usage,        \* what parseTranscriptUsage returned
  fault,        \* the file-system operation that rejects during the call
  \* ---- subscription lookup (getSubscriptionDetails) ----
  subCall,      \* the getSubscriptionDetails call: position and result
  \* ---- refresh cycle (updateStatus of the extension) ----
  billingCache, \* billingCache: null, or the cached list of records
  billingCacheTime, \* billingCacheTime
  statusBar,    \* what statusBarItem shows
  cycles,       \* per overlapping refresh, its updateStatus call
  completed,    \* the billing fetch that returned last
  \* ---- token figures (calculateUsageTokens) ----
  upc,          \* "idle", "ready" (arguments chosen) or "done"
  usageEntry,   \* the usage object of the call
  counted,      \* the four figures and the number the call returned
  \* ---- transcript resolver, one awaited call at a time ----
  run,          \* the locals of the parseTranscriptUsage call under way
  \* ---- joined fetches of a refresh (Promise.all) ----
  join,         \* the refresh: awaiting the two fetches, parsed, aggregated
  \* ---- status line of the statusline command ----
  statusline    \* the inputs of the line and what it shows of the context

billingVars == <<bpc, maxPages, page, allRecords, issued, replies, bresult>>

cacheVars == <<token, groupId, cache, clock, ticks, calls, ncalls, nreq>>

statsVars == <<spc, records, planStartTime, planEndTime, statsNow, stats>>

parseVars == <<ppc, apiData, subscriptionData, parseNow, parsed>>

transcriptVars == <<tpc, fs, transcriptPath, mtime, attempted, usage, fault>>

subscriptionVars == <<subCall>>

cycleVars == <<billingCache, billingCacheTime, statusBar, cycles, completed>>

tokensVars == <<upc, usageEntry, counted>>

resolverVars == <<run>>

joinVars == <<join>>

statuslineVars == <<statusline>>

vars == <<billingVars, cacheVars, statsVars, parseVars, transcriptVars,
          subscriptionVars, cycleVars, tokensVars, resolverVars,
          joinVars, statuslineVars>>

\* what a step of one component leaves alone
BillingFrame ==
  UNCHANGED <<cacheVars, statsVars, parseVars, transcriptVars,
              subscriptionVars, cycleVars, tokensVars, resolverVars, joinVars,
              statuslineVars>>
CacheFrame ==
  UNCHANGED <<billingVars, statsVars, parseVars, transcriptVars,
              subscriptionVars, cycleVars, tokensVars, resolverVars, joinVars,
              statuslineVars>>
StatsFrame ==
  UNCHANGED <<billingVars, cacheVars, parseVars, transcriptVars,
              subscriptionVars, cycleVars, tokensVars, resolverVars, joinVars,
              statuslineVars>>
ParseFrame ==
  UNCHANGED <<billingVars, cacheVars, statsVars, transcriptVars,
              subscriptionVars, cycleVars, tokensVars, resolverVars, joinVars,
              statuslineVars>>
TranscriptFrame ==
  UNCHANGED <<billingVars, cacheVars, statsVars, parseVars,
              subscriptionVars, cycleVars, tokensVars, resolverVars, joinVars,
              statuslineVars>>
SubscriptionFrame ==
  UNCHANGED <<billingVars, statsVars, parseVars, transcriptVars, cycleVars,
              tokensVars, resolverVars, joinVars,
              statuslineVars>>
CycleFrame ==
  UNCHANGED <<billingVars, statsVars, parseVars, transcriptVars,
              subscriptionVars, tokensVars, resolverVars, joinVars,
              statuslineVars>>
TokensFrame ==
  UNCHANGED <<billingVars, cacheVars, statsVars, parseVars, transcriptVars,
              subscriptionVars, cycleVars, resolverVars, joinVars,
              statuslineVars>>
ResolverFrame ==
  UNCHANGED <<billingVars, cacheVars, statsVars, parseVars,
              subscriptionVars, cycleVars, tokensVars, joinVars,
              statuslineVars>>
JoinFrame ==
  UNCHANGED <<billingVars, statsVars, parseVars, transcriptVars, cycleVars,
              tokensVars, resolverVars,
              statuslineVars>>
StatuslineFrame ==
  UNCHANGED <<billingVars, cacheVars, statsVars, parseVars, transcriptVars,
              subscriptionVars, cycleVars, tokensVars, resolverVars, joinVars>>

(***************************************************************************)
(* Bounds of the model.                                                    *)
(***************************************************************************)
MaxPagesBound == 4
MaxTicks == 2
MaxCalls == 2
MaxRecords == 2
MaxCount == 3
MaxLines == 3
MaxCycles == 2
MaxCycleTicks == 1
MaxFields == 4
CounterCap == 2

(***************************************************************************)
(* Billing paginator.                                                      *)
(***************************************************************************)
\* the page size getAllBillingRecords asks for, and compares lengths with
PageLimit == 100

\* the record counts a page answer may carry
PageSizes == {0, 1, PageLimit - 1, PageLimit, PageLimit + 1}

\* the records of an answer to the request for page p carrying n records
PageRecords(p, n) == [i \in 1..n |-> <<p, i>>]

\* what axios.get can do for one page request: throw (any transport or
\* status failure), or give a body with or without a charge_records list
HttpOutcomes(p) ==
  {[ok |-> FALSE, has |-> FALSE, recs |-> <<>>]}
  \cup {[ok |-> TRUE, has |-> FALSE, recs |-> <<>>]}
  \cup {[ok |-> TRUE, has |-> TRUE, recs |-> PageRecords(p, n)] : n \in PageSizes}

\* getBillingRecords: response.data on success, a wrapped Error on failure
getBillingRecords(outcome) ==
  IF outcome.ok
    THEN [threw |-> FALSE, data |-> [has |-> outcome.has, recs |-> outcome.recs]]
    ELSE [threw |-> TRUE, data |-> [has |-> FALSE, recs |-> <<>>]]

\* response.charge_records || []
ChargeRecords(data) == IF data.has THEN data.recs ELSE <<>>

\* the loop condition of getAllBillingRecords
LoopCond(p, m) == p <= m

\* records.length === 0
EmptyPage(recs) == Len(recs) = 0

\* a paginator that forgets the short-page test
ShortPageForgotten(recs) == FALSE

\* a paginator that takes a page of 99 records for a full one
ShortPageLax(recs) == Len(recs) < PageLimit - 1

\* records.length < 100
ShortPage(recs) == Len(recs) < PageLimit

\* a paginator that drops what it has collected when a page fails
OnPageFailureDrop(acc) == <<>>

\* the catch block's effect on the accumulator: the accumulator is kept
OnPageFailure(acc) == acc

BillingIdle ==
  /\ bpc = "idle"
  /\ maxPages = 0
  /\ page = 0
  /\ allRecords = <<>>
  /\ issued = <<>>
  /\ replies = <<>>
  /\ bresult = [threw |-> FALSE, records |-> <<>>]

\* getAllBillingRecords(m): const allRecords = []; page = 1
BillingStart ==
  /\ bpc = "loop"
  /\ maxPages \in 0..MaxPagesBound
  /\ page = 1
  /\ allRecords = <<>>
  /\ issued = <<>>
  /\ replies = <<>>
  /\ bresult = [threw |-> FALSE, records |-> <<>>]

\* the loop test holds: the request for the page goes out and the call awaits
BillingRequest ==
  /\ bpc = "loop"
  /\ LoopCond(page, maxPages)
  /\ issued' = Append(issued, page)
  /\ bpc' = "await"
  /\ UNCHANGED <<maxPages, page, allRecords, replies, bresult>>
  /\ BillingFrame

\* the loop test fails: return allRecords
BillingReturn ==
  /\ bpc = "loop"
  /\ ~LoopCond(page, maxPages)
  /\ bpc' = "done"
  /\ bresult' = [threw |-> FALSE, records |-> allRecords]
  /\ UNCHANGED <<maxPages, page, allRecords, issued, replies>>
  /\ BillingFrame

\* the awaited request settles: the rest of the loop body
BillingSettle ==
  /\ bpc = "await"
  /\ \E outcome \in HttpOutcomes(page) :
       LET response == getBillingRecords(outcome)
           pageRecords == ChargeRecords(response.data)
       IN /\ replies' = Append(replies, outcome)
          /\ IF response.threw
               THEN \* catch: console.error, break
                    /\ allRecords' = OnPageFailure(allRecords)
                    /\ bpc' = "done"
                    /\ bresult' = [threw |-> FALSE, records |-> allRecords']
                    /\ page' = page
               ELSE IF EmptyPage(pageRecords)
                 THEN \* break before the push
                      /\ allRecords' = allRecords
                      /\ bpc' = "done"
                      /\ bresult' = [threw |-> FALSE, records |-> allRecords']
                      /\ page' = page
                 ELSE /\ allRecords' = allRecords \o pageRecords
                      /\ IF ShortPage(pageRecords)
                           THEN /\ bpc' = "done"
                                /\ bresult' = [threw |-> FALSE, records |-> allRecords']
                                /\ page' = page
                           ELSE /\ bpc' = "loop"
                                /\ bresult' = bresult
                                /\ page' = page + 1
  /\ UNCHANGED <<maxPages, issued>>
  /\ BillingFrame

(***************************************************************************)
(* Quota response cache: getUsageStatus, clearCache, setCredentials.       *)
(***************************************************************************)
\* this.cacheTimeout
cacheTimeout == 8000

\* the overlapping refreshes that may call getUsageStatus
Callers == {1, 2}

\* the amounts by which the clock advances between two events
TickSteps == {1, cacheTimeout - 1}

\* the ways the quota request can fail, as the catch block tells them apart
HttpFailures == {"401", "ECONNABORTED", "ENOTFOUND", "other"}

\* the Error getUsageStatus throws for a failed request
RequestError(failure) ==
  CASE failure = "401" -> "Invalid token or unauthorized"
    [] failure = "ECONNABORTED" -> "Request timeout"
    [] failure = "ENOTFOUND" -> "Network error"
    [] OTHER -> "API request failed"

NoCall ==
  [pc |-> "idle", force |-> FALSE, now |-> 0, seen |-> [data |-> 0, timestamp |-> 0],
   creds |-> FALSE, reqs |-> 0, req |-> 0, kind |-> "none", data |-> 0,
   error |-> ""]

\* constructor: this.cache = {data: null, timestamp: 0}
EmptyCache == [data |-> 0, timestamp |-> 0]

CacheIdle ==
  /\ token = FALSE
  /\ groupId = FALSE
  /\ cache = EmptyCache
  /\ clock = 0
  /\ ticks = 0
  /\ calls = [c \in Callers |-> NoCall]
  /\ ncalls = 0
  /\ nreq = 0

\* after construction and loadConfig: the config file may or may not hold
\* the credentials
CacheStart ==
  /\ token \in BOOLEAN
  /\ groupId \in BOOLEAN
  /\ cache = EmptyCache
  /\ clock = 0
  /\ ticks = 0
  /\ calls = [c \in Callers |-> NoCall]
  /\ ncalls = 0
  /\ nreq = 0

\* !this.token || !this.groupId
MissingCredentials == ~token \/ ~groupId

\* a cache test that still serves an entry of exactly cacheTimeout ms
CacheFreshInclusive(now, entry) ==
  entry.data # 0 /\ now - entry.timestamp <= cacheTimeout

\* a cache test that expires an entry one millisecond early
CacheFreshEarly(now, entry) ==
  entry.data # 0 /\ now - entry.timestamp < cacheTimeout - 1

\* this.cache.data && now - this.cache.timestamp < this.cacheTimeout
CacheFresh(now, entry) ==
  entry.data # 0 /\ now - entry.timestamp < cacheTimeout

\* time passes
Tick ==
  /\ ticks < MaxTicks
  /\ \E d \in TickSteps : clock' = clock + d
  /\ ticks' = ticks + 1
  /\ UNCHANGED <<token, groupId, cache, calls, ncalls, nreq>>
  /\ CacheFrame

\* setCredentials(token, groupId)
SetCredentials ==
  /\ \E t \in BOOLEAN, g \in BOOLEAN :
       /\ <<t, g>> # <<token, groupId>>
       /\ token' = t
       /\ groupId' = g
  /\ UNCHANGED <<cache, clock, ticks, calls, ncalls, nreq>>
  /\ CacheFrame

\* clearCache()
ClearCache ==
  /\ cache # EmptyCache
  /\ cache' = EmptyCache
  /\ UNCHANGED <<token, groupId, clock, ticks, calls, ncalls, nreq>>
  /\ CacheFrame

\* a getUsageStatus that serves an unexpired entry before it looks at the
\* credentials
getUsageStatusCacheFirst(c, forceRefresh) ==
  LET now == clock
      started == [NoCall EXCEPT !.force = forceRefresh, !.now = now,
                                !.seen = cache, !.creds = ~MissingCredentials]
  IN IF ~forceRefresh /\ CacheFresh(now, cache)
       THEN /\ calls' = [calls EXCEPT ![c] =
                   [started EXCEPT !.pc = "done", !.kind = "ok",
                                   !.data = cache.data]]
            /\ nreq' = nreq
       ELSE IF MissingCredentials
         THEN /\ calls' = [calls EXCEPT ![c] =
                     [started EXCEPT !.pc = "done", !.kind = "error",
                                     !.error = "Missing credentials"]]
              /\ nreq' = nreq
         ELSE /\ calls' = [calls EXCEPT ![c] =
                     [started EXCEPT !.pc = "await", !.reqs = 1,
                                     !.req = nreq + 1]]
              /\ nreq' = nreq + 1

\* getUsageStatus(forceRefresh) of caller c, up to its return, throw or
\* await
getUsageStatus(c, forceRefresh) ==
  LET now == clock
      started == [NoCall EXCEPT !.force = forceRefresh, !.now = now,
                                !.seen = cache, !.creds = ~MissingCredentials]
  IN IF MissingCredentials
       THEN /\ calls' = [calls EXCEPT ![c] =
                   [started EXCEPT !.pc = "done", !.kind = "error",
                                   !.error = "Missing credentials"]]
            /\ nreq' = nreq
       ELSE IF ~forceRefresh /\ CacheFresh(now, cache)
         THEN /\ calls' = [calls EXCEPT ![c] =
                     [started EXCEPT !.pc = "done", !.kind = "ok",
                                     !.data = cache.data]]
              /\ nreq' = nreq
         ELSE /\ calls' = [calls EXCEPT ![c] =
                     [started EXCEPT !.pc = "await", !.reqs = 1,
                                     !.req = nreq + 1]]
              /\ nreq' = nreq + 1

\* a caller calls getUsageStatus (a new call takes the first caller that
\* has no call in flight)
UsageCall(c) ==
  /\ calls[c].pc # "await"
  /\ \A d \in Callers : d < c => calls[d].pc = "await"
  /\ ncalls < MaxCalls
  /\ ncalls' = ncalls + 1
  /\ \E forceRefresh \in BOOLEAN : getUsageStatus(c, forceRefresh)
  /\ UNCHANGED <<token, groupId, cache, clock, ticks>>
  /\ CacheFrame

\* the awaited quota request answers: update the cache, return response.data
UsageResponse(c) ==
  /\ calls[c].pc = "await"
  /\ LET payload == calls[c].req
     IN /\ cache' = [data |-> payload, timestamp |-> calls[c].now]
        /\ calls' = [calls EXCEPT ![c].pc = "done", ![c].kind = "ok",
                                   ![c].data = payload]
  /\ UNCHANGED <<token, groupId, clock, ticks, ncalls, nreq>>
  /\ CacheFrame

\* a catch block that sends the request once more before it gives up
OnRequestFailureRetry(call, failure) ==
  IF call.reqs < 2
    THEN [call EXCEPT !.reqs = call.reqs + 1]
    ELSE [call EXCEPT !.pc = "done", !.kind = "error",
                      !.error = RequestError(failure)]

\* the catch block of getUsageStatus: the call throws a new Error
OnRequestFailure(call, failure) ==
  [call EXCEPT !.pc = "done", !.kind = "error", !.error = RequestError(failure)]

\* the awaited quota request fails
\* a catch block that records the time of the failed request as a fetch
CacheAfterFailureTouched(entry, call) == [entry EXCEPT !.timestamp = call.now]

\* the catch block of getUsageStatus assigns nothing to this.cache
CacheAfterFailure(entry, call) == entry

UsageFailure(c) ==
  /\ calls[c].pc = "await"
  /\ \E failure \in HttpFailures :
       calls' = [calls EXCEPT ![c] = OnRequestFailure(calls[c], failure)]
  /\ cache' = CacheAfterFailure(cache, calls[c])
  /\ UNCHANGED <<token, groupId, clock, ticks, ncalls, nreq>>
  /\ CacheFrame

NextCache ==
  \/ Tick
  \/ SetCredentials
  \/ ClearCache
  \/ \E c \in Callers : UsageCall(c)
  \/ \E c \in Callers : UsageResponse(c)
  \/ \E c \in Callers : UsageFailure(c)

(***************************************************************************)
(* Usage aggregator: calculateUsageStats.                                  *)
(***************************************************************************)
\* 24 * 60 * 60 * 1000
DayMs == 24 * 60 * 60 * 1000

\* 7 * 24 * 60 * 60 * 1000
WeekMs == 7 * 24 * 60 * 60 * 1000

\* a JavaScript value of a record field: a number, a string of characters
\* (n is then the number the string spells), or undefined
JsNumber(k) == [t |-> "number", n |-> k, s |-> <<>>]
JsString(chars, k) == [t |-> "string", n |-> k, s |-> chars]
JsUndefined == [t |-> "undefined", n |-> 0, s |-> <<>>]

DigitOf(ch) ==
  CASE ch = "0" -> 0 [] ch = "1" -> 1 [] ch = "2" -> 2 [] ch = "3" -> 3
    [] ch = "4" -> 4 [] ch = "5" -> 5 [] ch = "6" -> 6 [] ch = "7" -> 7
    [] ch = "8" -> 8 [] ch = "9" -> 9 [] OTHER -> -1

RECURSIVE ParseDigits(_, _, _)
\* the value of the longest prefix of digits of chars from position i on,
\* acc being the value read so far and -1 standing for "no digit read"
ParseDigits(chars, i, acc) ==
  IF i > Len(chars) \/ DigitOf(chars[i]) < 0 THEN acc
  ELSE ParseDigits(chars, i + 1,
                   (IF acc < 0 THEN 0 ELSE acc) * 10 + DigitOf(chars[i]))

\* parseInt(v, 10): a number or NaN
parseInt(v) ==
  CASE v.t = "number" -> [nan |-> FALSE, n |-> v.n]
    [] v.t = "string" ->
         LET d == ParseDigits(v.s, 1, -1)
         IN IF d < 0 THEN [nan |-> TRUE, n |-> 0] ELSE [nan |-> FALSE, n |-> d]
    [] OTHER -> [nan |-> TRUE, n |-> 0]

\* parseInt(record.consume_token, 10) || 0
Tokens(record) ==
  LET r == parseInt(record.consume_token)
  IN IF r.nan THEN 0 ELSE r.n

\* (record.created_at || 0) * 1000
CreatedAtMs(record) ==
  (IF record.created_at.t = "number" THEN record.created_at.n ELSE 0) * 1000

\* new Date().setHours(0, 0, 0, 0): local midnight of the day of now
TodayStart(now) == now - (now % DayMs)

\* a window from yesterday's midnight on, today included
InLastDayToNow(createdAt, now) == createdAt >= TodayStart(now) - DayMs

\* createdAt >= yesterdayStart && createdAt < todayStart
InLastDay(createdAt, now) ==
  createdAt >= TodayStart(now) - DayMs /\ createdAt < TodayStart(now)

\* a week that ends where yesterday begins
InWeekBeforeYesterday(createdAt, now) ==
  createdAt >= now - WeekMs /\ createdAt < TodayStart(now) - DayMs

\* createdAt >= weekAgo
InWeek(createdAt, now) == createdAt >= now - WeekMs

\* a plan window that leaves its last millisecond out
InPlanExclusive(createdAt, planStartMs, planEndMs) ==
  createdAt >= planStartMs /\ createdAt < planEndMs

\* createdAt >= planStartMs && createdAt <= planEndMs
InPlan(createdAt, planStartMs, planEndMs) ==
  createdAt >= planStartMs /\ createdAt <= planEndMs

RECURSIVE StatsLoop(_, _, _, _, _, _)
\* the for loop of calculateUsageStats from record i on
StatsLoop(recs, i, acc, planStartMs, planEndMs, now) ==
  IF i > Len(recs) THEN acc
  ELSE LET tokens == Tokens(recs[i])
           createdAt == CreatedAtMs(recs[i])
       IN StatsLoop(recs, i + 1,
            [lastDayUsage |-> acc.lastDayUsage
                                + (IF InLastDay(createdAt, now) THEN tokens ELSE 0),
             weeklyUsage |-> acc.weeklyUsage
                                + (IF InWeek(createdAt, now) THEN tokens ELSE 0),
             planTotalUsage |-> acc.planTotalUsage
                                + (IF InPlan(createdAt, planStartMs, planEndMs)
                                     THEN tokens ELSE 0)],
            planStartMs, planEndMs, now)

ZeroStats == [lastDayUsage |-> 0, weeklyUsage |-> 0, planTotalUsage |-> 0]

calculateUsageStats(recs, planStart, planEnd, now) ==
  StatsLoop(recs, 1, ZeroStats, planStart, planEnd, now)

\* the clock readings tried: 01:00:00.5 on the ninth day after the epoch,
\* and midnight sharp
NowValues == {8 * DayMs + 3600500, 8 * DayMs}

\* the creation times tried, in seconds: around yesterday's two ends, around
\* a week before now, and after now
CreatedAtValues ==
  {7 * 86400 - 1, 7 * 86400, 8 * 86400 - 1, 8 * 86400,
   86400 + 3600, 86400 + 3601, 8 * 86400 + 3601}

ConsumeTokenValues == {JsNumber(1), JsString(<<"2", "0">>, 20)}

BillingRecords ==
  [consume_token : ConsumeTokenValues,
   created_at : {JsNumber(k) : k \in CreatedAtValues} \cup {JsUndefined}]

PlanStartValues == {0, 7 * DayMs, 7 * DayMs + 1}

PlanEndValues == {8 * DayMs - 1000, 8 * DayMs - 1001, 8 * DayMs + 3600500}

StatsIdle ==
  /\ spc = "idle"
  /\ records = <<>>
  /\ planStartTime = 0
  /\ planEndTime = 0
  /\ statsNow = 0
  /\ stats = ZeroStats

\* the arguments and the clock of one call of calculateUsageStats
StatsStart ==
  /\ spc = "ready"
  /\ records \in UNION {[1..n -> BillingRecords] : n \in 0..MaxRecords}
  /\ planStartTime \in PlanStartValues
  /\ planEndTime \in PlanEndValues
  /\ statsNow \in NowValues
  /\ stats = ZeroStats

\* calculateUsageStats(records, planStartTime, planEndTime)
Aggregate ==
  /\ spc = "ready"
  /\ spc' = "done"
  /\ stats' = calculateUsageStats(records, planStartTime, planEndTime, statsNow)
  /\ UNCHANGED <<records, planStartTime, planEndTime, statsNow>>
  /\ StatsFrame

NextStats == Aggregate

(***************************************************************************)
(* Snapshot parser: parseUsageData.                                        *)
(***************************************************************************)
\* 1000 * 60 * 60 and 1000 * 60
HourMs == 1000 * 60 * 60
MinuteMs == 1000 * 60

\* a JavaScript number that may be NaN or infinite
Finite(k) == [k |-> "finite", n |-> k]
NaN == [k |-> "NaN", n |-> 0]
Infinity == [k |-> "Infinity", n |-> 0]
NegInfinity == [k |-> "-Infinity", n |-> 0]

\* floor(a / b) for integers, b # 0
\* a remainder that leaves its argument as it is
JsRemWhole(a, b) == a

FloorDiv(a, b) == IF b > 0 THEN a \div b ELSE (-a) \div (-b)

\* a % b of JavaScript: the remainder has the sign of a
JsRem(a, b) == IF a >= 0 THEN a % b ELSE -((-a) % b)

\* Math.round((used / total) * 100): 0/0 is NaN, x/0 is +-Infinity, and
\* Math.round rounds a half up
RoundPercent(used, total) ==
  IF total = 0
    THEN (IF used = 0 THEN NaN ELSE IF used > 0 THEN Infinity ELSE NegInfinity)
    ELSE Finite(FloorDiv(200 * used + total, 2 * total))

\* Math.ceil(a / b) for integers, b > 0
CeilDiv(a, b) == -((-a) \div b)

\* the subscription payloads: null, one without current_subscribe, one
\* without an end time, one whose end time is no date, or one with an end
\* time (ms is the instant new Date(end time) gives)
SubNull == [k |-> "null", ms |-> 0]
SubNoSubscribe == [k |-> "no current_subscribe", ms |-> 0]
SubNoEndTime == [k |-> "no end time", ms |-> 0]
SubBadEndTime == [k |-> "bad end time", ms |-> 0]
SubEndTime(t) == [k |-> "end time", ms |-> t]

\* subscriptionData && .current_subscribe && .current_subscribe_end_time
HasEndTime(sub) == sub.k \in {"bad end time", "end time"}

NoExpiry == [present |-> FALSE, daysRemaining |-> Finite(0), text |-> ""]

\* the expiryInfo of parseUsageData
ExpiryInfo(sub, now) ==
  IF ~HasEndTime(sub) THEN NoExpiry
  ELSE IF sub.k = "bad end time"
    THEN \* new Date(...) is an Invalid Date: getTime() is NaN
         [present |-> TRUE, daysRemaining |-> NaN, text |-> "expired NaN"]
    ELSE LET daysDiff == CeilDiv(sub.ms - now, 1000 * 3600 * 24)
         IN [present |-> TRUE, daysRemaining |-> Finite(daysDiff),
             text |-> IF daysDiff > 0 THEN "days left"
                      ELSE IF daysDiff = 0 THEN "expires today" ELSE "expired"]

\* hours and minutes of the day in Asia/Shanghai (UTC+8)
ShanghaiTime(t) ==
  [hour |-> ((t + 8 * HourMs) % DayMs) \div HourMs,
   minute |-> ((t + 8 * HourMs) % HourMs) \div MinuteMs]

NoSnapshot ==
  [modelName |-> "",
   timeWindow |-> [start |-> [hour |-> 0, minute |-> 0],
                   end |-> [hour |-> 0, minute |-> 0]],
   remaining |-> [hours |-> 0, minutes |-> 0],
   usage |-> [used |-> 0, remaining |-> 0, total |-> 0, percentage |-> Finite(0)],
   expiry |-> NoExpiry]

\* the object parseUsageData returns for the model entry modelData
\* a parser that takes current_interval_usage_count for the count used
SnapshotUsageAsUsed(modelData, sub, now) ==
  [modelName |-> modelData.model_name,
   timeWindow |-> [start |-> ShanghaiTime(modelData.start_time),
                   end |-> ShanghaiTime(modelData.end_time)],
   remaining |-> [hours |-> FloorDiv(modelData.remains_time, HourMs),
                  minutes |-> FloorDiv(JsRem(modelData.remains_time, HourMs),
                                       MinuteMs)],
   usage |-> [used |-> modelData.current_interval_usage_count,
              remaining |-> modelData.current_interval_total_count
                              - modelData.current_interval_usage_count,
              total |-> modelData.current_interval_total_count,
              percentage |-> RoundPercent(modelData.current_interval_usage_count,
                                modelData.current_interval_total_count)],
   expiry |-> ExpiryInfo(sub, now)]

Snapshot(modelData, sub, now) ==
  LET remainingCount == modelData.current_interval_usage_count
      usedCount == modelData.current_interval_total_count - remainingCount
      remainingMs == modelData.remains_time
  IN [modelName |-> modelData.model_name,
      timeWindow |-> [start |-> ShanghaiTime(modelData.start_time),
                      end |-> ShanghaiTime(modelData.end_time)],
      remaining |-> [hours |-> FloorDiv(remainingMs, HourMs),
                     minutes |-> FloorDiv(JsRem(remainingMs, HourMs), MinuteMs)],
      usage |-> [used |-> usedCount,
                 remaining |-> remainingCount,
                 total |-> modelData.current_interval_total_count,
                 percentage |-> RoundPercent(usedCount,
                                   modelData.current_interval_total_count)],
      expiry |-> ExpiryInfo(sub, now)]

\* !apiData.model_remains || apiData.model_remains.length === 0
NoUsageData(data) == ~data.has \/ Len(data.model_remains) = 0

\* a model entry of zeros
ZeroModel ==
  [model_name |-> "", start_time |-> 0, end_time |-> 0, remains_time |-> 0,
   current_interval_usage_count |-> 0, current_interval_total_count |-> 0]

\* a parser that gives a snapshot of zeros for an empty model list
parseUsageDataLenient(data, sub, now) ==
  IF ~data.has
    THEN [threw |-> TRUE, error |-> "No usage data available", snapshot |-> NoSnapshot]
    ELSE [threw |-> FALSE, error |-> "",
          snapshot |-> Snapshot(IF Len(data.model_remains) = 0 THEN ZeroModel
                                ELSE data.model_remains[1], sub, now)]

parseUsageData(data, sub, now) ==
  IF NoUsageData(data)
    THEN [threw |-> TRUE, error |-> "No usage data available", snapshot |-> NoSnapshot]
    ELSE [threw |-> FALSE, error |-> "",
          snapshot |-> Snapshot(data.model_remains[1], sub, now)]

\* the model entries tried
RemainsTimes ==
  {0, MinuteMs - 1, MinuteMs, HourMs - 1, HourMs + MinuteMs, 2 * HourMs - 1,
   25 * HourMs + 59 * MinuteMs + 59999}

ModelEntries ==
  [model_name : {"MiniMax-M2"},
   start_time : {8 * DayMs},
   end_time : {8 * DayMs + 5 * HourMs},
   remains_time : RemainsTimes,
   current_interval_usage_count : -1..(MaxCount + 1),
   current_interval_total_count : 0..MaxCount]

\* a second entry of the list, which parseUsageData never reads
OtherEntry ==
  [model_name |-> "other", start_time |-> 0, end_time |-> 0, remains_time |-> 0,
   current_interval_usage_count |-> 1, current_interval_total_count |-> 2]

QuotaPayloads ==
  {[has |-> FALSE, model_remains |-> <<>>], [has |-> TRUE, model_remains |-> <<>>]}
  \cup {[has |-> TRUE, model_remains |-> <<e>>] : e \in ModelEntries}
  \cup {[has |-> TRUE, model_remains |-> <<e, OtherEntry>>] : e \in ModelEntries}

SubscriptionPayloads ==
  {SubNull, SubNoSubscribe, SubNoEndTime, SubBadEndTime,
   SubEndTime(8 * DayMs), SubEndTime(9 * DayMs), SubEndTime(7 * DayMs)}

ParseIdle ==
  /\ ppc = "idle"
  /\ apiData = [has |-> FALSE, model_remains |-> <<>>]
  /\ subscriptionData = SubNull
  /\ parseNow = 0
  /\ parsed = [threw |-> FALSE, error |-> "", snapshot |-> NoSnapshot]

\* the arguments and the clock of one call of parseUsageData
ParseStart ==
  /\ ppc = "ready"
  /\ apiData \in QuotaPayloads
  /\ subscriptionData \in SubscriptionPayloads
  /\ parseNow \in NowValues
  /\ parsed = [threw |-> FALSE, error |-> "", snapshot |-> NoSnapshot]

\* parseUsageData(apiData, subscriptionData)
Parse ==
  /\ ppc = "ready"
  /\ ppc' = "done"
  /\ parsed' = parseUsageData(apiData, subscriptionData, parseNow)
  /\ UNCHANGED <<apiData, subscriptionData, parseNow>>
  /\ ParseFrame

NextParse == Parse

(***************************************************************************)
(* Token figures: calculateUsageTokens.                                    *)
(***************************************************************************)
\* a JavaScript value is truthy: a number other than 0, a non-empty string
Truthy(v) ==
  \/ v.t = "number" /\ v.n # 0
  \/ v.t = "string" /\ Len(v.s) > 0

\* a || b that prefers the later operand
OrElseLater(a, b) == IF Truthy(b) THEN b ELSE a

\* a || b
OrElse(a, b) == IF Truthy(a) THEN a ELSE b

\* a usage object with no field
EmptyUsage ==
  [input_tokens |-> JsUndefined, prompt_tokens |-> JsUndefined,
   output_tokens |-> JsUndefined, completion_tokens |-> JsUndefined,
   cache_creation_input_tokens |-> JsUndefined,
   cache_creation_prompt_tokens |-> JsUndefined,
   cache_read_input_tokens |-> JsUndefined,
   cache_read_prompt_tokens |-> JsUndefined,
   cached_tokens |-> JsUndefined,
   prompt_tokens_details |-> [present |-> FALSE, cached_tokens |-> JsUndefined],
   total_tokens |-> JsUndefined]

\* usage.prompt_tokens_details && usage.prompt_tokens_details.cached_tokens
DetailsCached(u) ==
  IF u.prompt_tokens_details.present
    THEN u.prompt_tokens_details.cached_tokens ELSE JsUndefined

\* inputTokens, outputTokens, cacheCreation and cacheRead of
\* calculateUsageTokens
UsageFigures(u) ==
  [inputTokens |->
     OrElse(u.input_tokens, OrElse(u.prompt_tokens, JsNumber(0))).n,
   outputTokens |->
     OrElse(u.output_tokens, OrElse(u.completion_tokens, JsNumber(0))).n,
   cacheCreation |->
     OrElse(u.cache_creation_input_tokens,
            OrElse(u.cache_creation_prompt_tokens, JsNumber(0))).n,
   cacheRead |->
     OrElse(u.cache_read_input_tokens,
            OrElse(u.cache_read_prompt_tokens,
                   OrElse(u.cached_tokens,
                          OrElse(DetailsCached(u), JsNumber(0))))).n]

\* the sum of the four figures
ContextTokens(f) ==
  f.inputTokens + f.outputTokens + f.cacheCreation + f.cacheRead

\* a calculateUsageTokens that prefers total_tokens to the sum
calculateUsageTokensTotalFirst(u) ==
  IF Truthy(u.total_tokens) THEN u.total_tokens.n
  ELSE IF ContextTokens(UsageFigures(u)) > 0 THEN ContextTokens(UsageFigures(u))
  ELSE 0

calculateUsageTokens(u) ==
  IF ContextTokens(UsageFigures(u)) > 0 THEN ContextTokens(UsageFigures(u))
  ELSE IF Truthy(u.total_tokens) THEN u.total_tokens.n
  ELSE 0

\* the values a field of the usage object takes: absent, 0, or k
TokenValues(k) == {JsUndefined, JsNumber(0), JsNumber(k)}

\* the number of fields the usage object u carries
FieldCount(u) ==
  Cardinality({f \in {"input_tokens", "prompt_tokens", "output_tokens",
                      "completion_tokens", "cache_creation_input_tokens",
                      "cache_creation_prompt_tokens", "cache_read_input_tokens",
                      "cache_read_prompt_tokens", "cached_tokens",
                      "total_tokens"} : u[f].t # "undefined"})
  + (IF u.prompt_tokens_details.present THEN 1 ELSE 0)

\* the usage objects tried: every field absent, 0 or a number of its own
UsageEntries ==
  {u \in [input_tokens : TokenValues(1), prompt_tokens : TokenValues(2),
          output_tokens : TokenValues(3), completion_tokens : TokenValues(4),
          cache_creation_input_tokens : TokenValues(6),
          cache_creation_prompt_tokens : TokenValues(7),
          cache_read_input_tokens : TokenValues(5),
          cache_read_prompt_tokens : TokenValues(8),
          cached_tokens : TokenValues(99),
          prompt_tokens_details :
            {[present |-> FALSE, cached_tokens |-> JsUndefined]}
            \cup [present : {TRUE}, cached_tokens : TokenValues(9)],
          total_tokens : TokenValues(50)] :
     FieldCount(u) <= MaxFields}

NoCount ==
  [figures |-> [inputTokens |-> 0, outputTokens |-> 0, cacheCreation |-> 0,
                cacheRead |-> 0],
   tokens |-> 0]

TokensIdle ==
  /\ upc = "idle"
  /\ usageEntry = EmptyUsage
  /\ counted = NoCount

\* the argument of one call of calculateUsageTokens
TokensStart ==
  /\ upc = "ready"
  /\ usageEntry \in UsageEntries
  /\ counted = NoCount

\* calculateUsageTokens(usage)
Count ==
  /\ upc = "ready"
  /\ upc' = "done"
  /\ counted' = [figures |-> UsageFigures(usageEntry),
                 tokens |-> calculateUsageTokens(usageEntry)]
  /\ UNCHANGED usageEntry
  /\ TokensFrame

NextTokens == Count

(***************************************************************************)
(* Transcript resolver: parseTranscriptUsage and what it calls.            *)
(***************************************************************************)
\* the files of the project directory
FileNames == {"a.jsonl", "b.jsonl", "n.txt"}

\* path.extname(filePath) === ".jsonl"
IsJsonl(f) == f \in {"a.jsonl", "b.jsonl"}

\* a line JSON.parse rejects
Malformed ==
  [k |-> "bad", type |-> "", uuid |-> "", parentUuid |-> "", leafUuid |-> "",
   hasUsage |-> FALSE, usage |-> EmptyUsage]

\* {"type":"assistant","uuid":u,"message":{"usage":usg}}
AssistantLine(u, usg) ==
  [k |-> "entry", type |-> "assistant", uuid |-> u, parentUuid |-> "",
   leafUuid |-> "", hasUsage |-> TRUE, usage |-> usg]

\* {"type":"user","uuid":u,"parentUuid":p}
UserLine(u, p) ==
  [k |-> "entry", type |-> "user", uuid |-> u, parentUuid |-> p,
   leafUuid |-> "", hasUsage |-> FALSE, usage |-> EmptyUsage]

\* {"type":"summary","leafUuid":l}
SummaryLine(l) ==
  [k |-> "entry", type |-> "summary", uuid |-> "", parentUuid |-> "",
   leafUuid |-> l, hasUsage |-> FALSE, usage |-> EmptyUsage]

\* the texts of the lines a session may write to its transcript; a uuid
\* names one entry, so the lines that carry the same uuid are the same line
\* (a resumed session copies entries into its own file)
TranscriptLines ==
  {"{not json", "assistant u1 output_tokens 42", "assistant u2 input_tokens 7",
   "user u3 parent u1", "summary leaf u1", "summary leaf u3", "summary"}

\* sessions whose entries refer to one another: an answer u1, a question
\* u3 put to it, a question u4 whose parent is the question u3, a question
\* u5 that is its own parent, summaries of them and a summary that names
\* itself
ChainSessions ==
  {<<"assistant u1 output_tokens 42">>,
   <<"user u3 parent u1">>,
   <<"assistant u1 output_tokens 42", "user u3 parent u1">>,
   <<"summary leaf u3">>,
   <<"summary leaf u4">>,
   <<"user u3 parent u1", "summary leaf u3">>,
   <<"assistant u1 output_tokens 42", "user u3 parent u1", "summary leaf u3">>,
   <<"assistant u1 output_tokens 42", "user u3 parent u1",
     "user u4 parent u3", "summary leaf u4">>,
   <<"user u5 parent u5", "summary leaf u5">>,
   <<"summary s1 leaf s1">>}

\* the lines written to a file that is no transcript
OtherFileLines == {"assistant u1 output_tokens 42"}

\* JSON.parse(line): the entry a line spells; a line that is no JSON throws
JsonParse(line) ==
  CASE line = "assistant u1 output_tokens 42" ->
         AssistantLine("u1", [EmptyUsage EXCEPT !.output_tokens = JsNumber(42)])
    [] line = "assistant u2 input_tokens 7" ->
         AssistantLine("u2", [EmptyUsage EXCEPT !.input_tokens = JsNumber(7)])
    [] line = "user u3 parent u1" -> UserLine("u3", "u1")
    [] line = "summary leaf u1" -> SummaryLine("u1")
    [] line = "summary leaf u3" -> SummaryLine("u3")
    [] line = "summary" -> SummaryLine("")
    [] line = "user u4 parent u3" -> UserLine("u4", "u3")
    [] line = "user u5 parent u5" -> UserLine("u5", "u5")
    [] line = "summary leaf u4" -> SummaryLine("u4")
    [] line = "summary leaf u5" -> SummaryLine("u5")
    [] line = "summary s1 leaf s1" -> [SummaryLine("s1") EXCEPT !.uuid = "s1"]
    [] OTHER -> Malformed

\* what a call gives: a token count or null, or the error it throws
Null == [null |-> TRUE, n |-> 0, threw |-> FALSE]
Some(n) == [null |-> FALSE, n |-> n, threw |-> FALSE]
Thrown == [null |-> TRUE, n |-> 0, threw |-> TRUE]

\* a catch block that passes the error on
CaughtRethrown(r) == r

\* try { ... } catch (error) { return null; }
Caught(r) == IF r.threw THEN Null ELSE r

\* fs.readFile rejects: the file is missing, or it cannot be read
ReadFileFails(dir, path) == ~dir[path].exists \/ fault = "readFile"

\* fs.readdir rejects, or fs.stat rejects for the first entry of the listing
ListingFails(entries) ==
  fault = "readdir" \/ (fault = "stat" /\ Len(entries) > 0)

\* entry.type === "assistant" && entry.message && entry.message.usage
AssistantWithUsage(entry) == entry.type = "assistant" /\ entry.hasUsage

\* a resolver that never follows a summary
IsSummaryRefNever(entry) == FALSE

\* lastEntry.type === "summary" && lastEntry.leafUuid
IsSummaryRef(entry) == entry.type = "summary" /\ entry.leafUuid # ""

\* fileContent.trim().split("\n").filter((line) => line.trim())
NonBlankLines(file) == SelectSeq(file.lines, LAMBDA l : l # "")

RECURSIVE findAssistantMessageByUuid(_, _, _)
\* the forward loop of findAssistantMessageByUuid from line i on
findAssistantMessageByUuid(lines, targetUuid, i) ==
  IF i > Len(lines) THEN Null
  ELSE LET entry == JsonParse(lines[i])
       IN IF entry.k = "bad"
            THEN findAssistantMessageByUuid(lines, targetUuid, i + 1)
            ELSE IF entry.uuid = targetUuid /\ entry.type = "assistant"
                      /\ entry.hasUsage
              THEN Some(calculateUsageTokens(entry.usage))
              ELSE findAssistantMessageByUuid(lines, targetUuid, i + 1)

RECURSIVE SearchLoop(_, _, _)
\* the forward loop of searchUuidInFile from line i on
SearchLoop(lines, targetUuid, i) ==
  IF i > Len(lines) THEN Null
  ELSE LET entry == JsonParse(lines[i])
       IN IF entry.k = "bad" THEN SearchLoop(lines, targetUuid, i + 1)
          ELSE IF entry.uuid = targetUuid
            THEN IF AssistantWithUsage(entry)
                   THEN Some(calculateUsageTokens(entry.usage))
                   ELSE IF entry.type = "user" /\ entry.parentUuid # ""
                     THEN findAssistantMessageByUuid(lines, entry.parentUuid, 1)
                     ELSE Null
            ELSE SearchLoop(lines, targetUuid, i + 1)

searchUuidInFile(dir, filePath, targetUuid) ==
  Caught(IF ReadFileFails(dir, filePath) THEN Thrown
         ELSE SearchLoop(NonBlankLines(dir[filePath]), targetUuid, 1))

RECURSIVE LeafLoop(_, _, _, _)
\* the loop of findUsageByLeafUuid over the directory entries from i on
LeafLoop(dir, entries, leafUuid, i) ==
  IF i > Len(entries) THEN Null
  ELSE IF IsJsonl(entries[i])
    THEN LET found == searchUuidInFile(dir, entries[i], leafUuid)
         IN IF ~found.null THEN found
            ELSE LeafLoop(dir, entries, leafUuid, i + 1)
    ELSE LeafLoop(dir, entries, leafUuid, i + 1)

findUsageByLeafUuid(dir, entries, leafUuid) ==
  Caught(IF ListingFails(entries) THEN Thrown
         ELSE LeafLoop(dir, entries, leafUuid, 1))

RECURSIVE ScanBackward(_, _)
\* the backward loop of tryParseTranscriptFile from line i down
ScanBackward(lines, i) ==
  IF i = 0 THEN Null
  ELSE LET entry == JsonParse(lines[i])
       IN IF entry.k = "bad" THEN ScanBackward(lines, i - 1)
          ELSE IF AssistantWithUsage(entry)
            THEN Some(calculateUsageTokens(entry.usage))
            ELSE ScanBackward(lines, i - 1)

\* a tryParseTranscriptFile that scans the file itself when the reference
\* of its summary resolves to nothing
tryParseTranscriptFileThenScan(dir, entries, path) ==
  Caught(
    IF ReadFileFails(dir, path) THEN Thrown
    ELSE IF Len(NonBlankLines(dir[path])) = 0 THEN Null
    ELSE IF JsonParse(dir[path].lines[Len(dir[path].lines)]).k = "bad"
      THEN Thrown
    ELSE IF /\ IsSummaryRef(JsonParse(dir[path].lines[Len(dir[path].lines)]))
            /\ ~findUsageByLeafUuid(dir, entries,
                  JsonParse(dir[path].lines[Len(dir[path].lines)]).leafUuid).null
      THEN findUsageByLeafUuid(dir, entries,
             JsonParse(dir[path].lines[Len(dir[path].lines)]).leafUuid)
    ELSE ScanBackward(NonBlankLines(dir[path]), Len(NonBlankLines(dir[path]))))

\* entries is what fs.readdir gives for the directory of the file
tryParseTranscriptFile(dir, entries, path) ==
  Caught(
    IF ReadFileFails(dir, path) THEN Thrown
    ELSE LET lines == NonBlankLines(dir[path])
         IN IF Len(lines) = 0 THEN Null
            ELSE LET lastEntry == JsonParse(lines[Len(lines)])
                 IN IF lastEntry.k = "bad"
                      THEN \* JSON.parse(lastLine) throws: the outer catch
                           Thrown
                      ELSE IF IsSummaryRef(lastEntry)
                        THEN findUsageByLeafUuid(dir, entries, lastEntry.leafUuid)
                        ELSE ScanBackward(lines, Len(lines)))

\* sessionFiles: the .jsonl entries, in the order of the listing
SessionFiles(entries) == SelectSeq(entries, IsJsonl)

\* a comparison that puts the oldest file first
NewerFirstReversed(mt, f, g) == mt[f] <= mt[g]

\* f stays before g under sort((a, b) => b.mtime - a.mtime)
NewerFirst(mt, f, g) == mt[f] >= mt[g]

RECURSIVE InsertSorted(_, _, _)
\* file put into the sorted sequence after the files that stay before it
InsertSorted(sorted, file, mt) ==
  IF sorted = <<>> THEN <<file>>
  ELSE IF NewerFirst(mt, Head(sorted), file)
    THEN <<Head(sorted)>> \o InsertSorted(Tail(sorted), file, mt)
    ELSE <<file>> \o sorted

RECURSIVE SortByMtime(_, _, _)
\* sessionFiles.sort(...), a stable sort, of the first n files
SortByMtime(files, n, mt) ==
  IF n = 0 THEN <<>>
  ELSE InsertSorted(SortByMtime(files, n - 1, mt), files[n], mt)

RECURSIVE HistoryLoop(_, _, _, _, _)
\* the loop of tryFindUsageFromProjectHistory over the sorted files from i
\* on; tried are the files tried so far
HistoryLoop(dir, entries, sorted, i, tried) ==
  IF i > Len(sorted) THEN [usage |-> Null, attempted |-> tried]
  ELSE LET found == tryParseTranscriptFile(dir, entries, sorted[i])
       IN IF ~found.null
            THEN [usage |-> found, attempted |-> Append(tried, sorted[i])]
            ELSE HistoryLoop(dir, entries, sorted, i + 1, Append(tried, sorted[i]))

\* the catch block of a function that also reports the files it tried
CaughtWithFiles(r) == [usage |-> Caught(r.usage), attempted |-> r.attempted]

\* the files of the listing, newest first, tried in turn
HistoryOf(dir, entries, mt, sessionFiles) ==
  IF Len(sessionFiles) = 0 THEN [usage |-> Null, attempted |-> <<>>]
  ELSE HistoryLoop(dir, entries,
                   SortByMtime(sessionFiles, Len(sessionFiles), mt), 1, <<>>)

tryFindUsageFromProjectHistory(dir, entries, mt) ==
  CaughtWithFiles(
    IF ListingFails(entries) THEN [usage |-> Thrown, attempted |-> <<>>]
    ELSE HistoryOf(dir, entries, mt, SessionFiles(entries)))

\* a parseTranscriptUsage that turns to the project history whenever its
\* own file gave nothing
AfterOwnFileAlways(found, dir, entries, mt, path) ==
  IF found.threw \/ ~found.null THEN [usage |-> found, attempted |-> <<>>]
  ELSE tryFindUsageFromProjectHistory(dir, entries, mt)

\* parseTranscriptUsage after its await of tryParseTranscriptFile gave found
AfterOwnFile(found, dir, entries, mt, path) ==
  IF found.threw \/ ~found.null THEN [usage |-> found, attempted |-> <<>>]
  ELSE IF ~dir[path].exists
    THEN \* fs.access fails
         tryFindUsageFromProjectHistory(dir, entries, mt)
    ELSE [usage |-> Null, attempted |-> <<>>]

parseTranscriptUsage(dir, entries, mt, path) ==
  CaughtWithFiles(
    AfterOwnFile(tryParseTranscriptFile(dir, entries, path),
                 dir, entries, mt, path))

NoFile == [exists |-> FALSE, lines |-> <<>>]

TranscriptIdle ==
  /\ tpc = "idle"
  /\ fs = [f \in FileNames |-> NoFile]
  /\ transcriptPath = ""
  /\ mtime = [f \in FileNames |-> 0]
  /\ attempted = <<>>
  /\ usage = Null
  /\ fault = "none"

\* an empty project directory, before any session has written to it
TranscriptStart ==
  /\ tpc = "setup"
  /\ fs = [f \in FileNames |-> NoFile]
  /\ transcriptPath = ""
  /\ mtime = [f \in FileNames |-> 0]
  /\ attempted = <<>>
  /\ usage = Null
  /\ fault = "none"

\* the number of lines in the directory
TotalLines == Len(fs["a.jsonl"].lines) + Len(fs["b.jsonl"].lines) + Len(fs["n.txt"].lines)

\* a file is created empty
Touch(f) ==
  /\ tpc = "setup"
  /\ ~fs[f].exists
  /\ fs' = [fs EXCEPT ![f] = [exists |-> TRUE, lines |-> <<>>]]
  /\ UNCHANGED <<tpc, transcriptPath, mtime, attempted, usage, fault>>
  /\ TranscriptFrame

\* a session appends a line to its file, creating the file if need be
WriteLine(f) ==
  /\ tpc = "setup"
  /\ TotalLines < MaxLines
  /\ \E line \in (IF IsJsonl(f) THEN TranscriptLines ELSE OtherFileLines) :
       fs' = [fs EXCEPT ![f] = [exists |-> TRUE,
                                lines |-> Append(fs[f].lines, line)]]
  /\ UNCHANGED <<tpc, transcriptPath, mtime, attempted, usage, fault>>
  /\ TranscriptFrame

\* the files that are there
Existing == {f \in FileNames : fs[f].exists}

\* the orders in which fs.readdir may list the directory
Listings ==
  {l \in [1..Cardinality(Existing) -> Existing] :
     \A i, j \in 1..Cardinality(Existing) : i # j => l[i] # l[j]}

\* the modification times fs.stat may give: one for every .jsonl file that
\* is there, two files possibly with the same one
Mtimes ==
  {mt \in [FileNames -> 0..2] :
     /\ \A f \in FileNames : (mt[f] # 0) <=> (f \in Existing /\ IsJsonl(f))
     /\ \A f \in FileNames : mt[f] = 2 => \E g \in FileNames : mt[g] = 1}

\* the call of path reads the directory: its file is missing, or ends with
\* a summary that carries a leafUuid
ReadsDirectory(path) ==
  \/ ~fs[path].exists
  \/ /\ Len(NonBlankLines(fs[path])) > 0
     /\ LET lastEntry == JsonParse(fs[path].lines[Len(fs[path].lines)])
        IN lastEntry.k # "bad" /\ IsSummaryRef(lastEntry)

\* a file-system operation starts to reject: the files can no longer be
\* read, or the directory can no longer be listed, or its entries no longer
\* be examined
FileSystemFails ==
  /\ tpc = "setup"
  /\ tpc' = "failing"
  /\ \E kind \in {"readFile", "readdir", "stat"} : fault' = kind
  /\ UNCHANGED <<fs, transcriptPath, mtime, attempted, usage>>
  /\ TranscriptFrame

\* parseTranscriptUsage(transcriptPath)
Resolve ==
  /\ tpc \in {"setup", "failing"}
  /\ tpc' = "done"
  /\ \E path \in FileNames :
       /\ transcriptPath' = path
       /\ \E entries \in (IF ReadsDirectory(path) THEN Listings ELSE {<<>>}) :
          \E mt \in (IF ~fs[path].exists THEN Mtimes
                      ELSE {[f \in FileNames |-> 0]}) :
            LET r == parseTranscriptUsage(fs, entries, mt, path)
            IN /\ mtime' = mt
               /\ usage' = r.usage
               /\ attempted' = r.attempted
  /\ UNCHANGED <<fs, fault>>
  /\ TranscriptFrame

NextTranscript ==
  \/ \E f \in FileNames : Touch(f)
  \/ \E f \in FileNames : WriteLine(f)
  \/ Resolve

(***************************************************************************)
(* parseTranscriptUsage step by step: every awaited call of the resolver   *)
(* is a step, so that the depth of its calls can be observed.              *)
(***************************************************************************)

\* the locals of a call: the directory listing, the sorted history files
\* and the position in them (0: the named file), the file being resolved,
\* the leafUuid searched and the directory entry searched, the parentUuid
\* followed, what the file gave, and the depth of the calls under way
NoRun ==
  [listing |-> <<>>, sorted |-> <<>>, hist |-> 0, file |-> "", leaf |-> "",
   entry |-> 0, parent |-> "", found |-> Null, refs |-> 0, hops |-> 0,
   entered |-> 0]

ResolverIdle == run = NoRun

\* a depth one deeper, counted up to CounterCap
Deeper(n) == IF n < CounterCap THEN n + 1 ELSE CounterCap

\* a session whose entries refer to one another is written to its file
WriteSession(f) ==
  /\ tpc = "setup"
  /\ IsJsonl(f)
  /\ ~fs[f].exists
  /\ \E session \in ChainSessions :
       fs' = [fs EXCEPT ![f] = [exists |-> TRUE, lines |-> session]]
  /\ UNCHANGED <<tpc, transcriptPath, mtime, attempted, usage, fault>>
  /\ TranscriptFrame

\* parseTranscriptUsage(transcriptPath) is called
ResolveBegin ==
  /\ tpc = "setup"
  /\ tpc' = "file"
  /\ \E path \in FileNames :
       /\ transcriptPath' = path
       /\ \E entries \in (IF ReadsDirectory(path) THEN Listings ELSE {<<>>}) :
            run' = [NoRun EXCEPT !.listing = entries, !.file = path]
       /\ \E mt \in (IF ~fs[path].exists THEN Mtimes
                      ELSE {[f \in FileNames |-> 0]}) :
            mtime' = mt
  /\ UNCHANGED <<fs, attempted, usage, fault>>
  /\ ResolverFrame

\* what tryParseTranscriptFile does with the last line of the file: "null"
\* when there is nothing to read, "reference" when it is a summary with a
\* leafUuid, "scan" otherwise
InspectLastLine(dir, path) ==
  IF ReadFileFails(dir, path) THEN "null"
  ELSE IF Len(NonBlankLines(dir[path])) = 0 THEN "null"
  ELSE IF JsonParse(dir[path].lines[Len(dir[path].lines)]).k = "bad"
    THEN "null"
  ELSE IF IsSummaryRef(JsonParse(dir[path].lines[Len(dir[path].lines)]))
    THEN "reference"
  ELSE "scan"

\* tryParseTranscriptFile(run.file) up to its first awaited search
InspectStep ==
  /\ tpc = "file"
  /\ IF InspectLastLine(fs, run.file) = "reference"
       THEN /\ tpc' = "reference"
            /\ run' = [run EXCEPT
                 !.leaf = JsonParse(fs[run.file].lines[Len(fs[run.file].lines)]).leafUuid,
                 !.entry = 1,
                 !.refs = Deeper(@)]
       ELSE /\ tpc' = "result"
            /\ run' = [run EXCEPT
                 !.found = IF InspectLastLine(fs, run.file) = "scan"
                             THEN ScanBackward(NonBlankLines(fs[run.file]),
                                               Len(NonBlankLines(fs[run.file])))
                             ELSE Null]
  /\ UNCHANGED <<fs, transcriptPath, mtime, attempted, usage, fault>>
  /\ ResolverFrame

RECURSIVE FirstWithUuid(_, _, _)
\* the line at which the loop of searchUuidInFile stops: the first entry
\* from i on with the uuid, 0 when there is none
FirstWithUuid(lines, targetUuid, i) ==
  IF i > Len(lines) THEN 0
  ELSE IF JsonParse(lines[i]).k # "bad" /\ JsonParse(lines[i]).uuid = targetUuid
    THEN i
    ELSE FirstWithUuid(lines, targetUuid, i + 1)

\* searchUuidInFile at the entry it stops at: the usage of an assistant, a
\* parent to follow, or nothing
SearchStop(r, lines, at) ==
  IF at = 0
    THEN [pc |-> "reference", run |-> [r EXCEPT !.entry = @ + 1, !.hops = 0]]
  ELSE IF AssistantWithUsage(JsonParse(lines[at]))
    THEN [pc |-> "result",
          run |-> [r EXCEPT
            !.found = Some(calculateUsageTokens(JsonParse(lines[at]).usage))]]
  ELSE IF JsonParse(lines[at]).type = "user" /\ JsonParse(lines[at]).parentUuid # ""
    THEN [pc |-> "parent",
          run |-> [r EXCEPT !.parent = JsonParse(lines[at]).parentUuid,
                            !.hops = Deeper(@)]]
  ELSE [pc |-> "reference", run |-> [r EXCEPT !.entry = @ + 1, !.hops = 0]]

\* one turn of the loop of findUsageByLeafUuid: the directory entry
\* run.entry is searched for run.leaf
FindUsageByLeafUuidStep(r) ==
  IF r.entry > Len(r.listing)
    THEN [pc |-> "result", run |-> [r EXCEPT !.found = Null]]
  ELSE IF ~IsJsonl(r.listing[r.entry]) \/ ReadFileFails(fs, r.listing[r.entry])
    THEN [pc |-> "reference", run |-> [r EXCEPT !.entry = @ + 1, !.hops = 0]]
  ELSE SearchStop(r, NonBlankLines(fs[r.listing[r.entry]]),
                  FirstWithUuid(NonBlankLines(fs[r.listing[r.entry]]), r.leaf, 1))

ReferenceStep ==
  /\ tpc = "reference"
  /\ tpc' = FindUsageByLeafUuidStep(run).pc
  /\ run' = FindUsageByLeafUuidStep(run).run
  /\ UNCHANGED <<fs, transcriptPath, mtime, attempted, usage, fault>>
  /\ ResolverFrame

\* a resolver that searches the file for the parent as it searched it for
\* the leaf, following the parent of a parent
FollowParentAsTarget(r) ==
  [pc |-> "reference", run |-> [r EXCEPT !.leaf = r.parent, !.parent = ""]]

\* return await findAssistantMessageByUuid(lines, entry.parentUuid): its
\* usage ends the search, null sends findUsageByLeafUuid to the next entry
FollowParent(r) ==
  IF ~findAssistantMessageByUuid(NonBlankLines(fs[r.listing[r.entry]]),
                                 r.parent, 1).null
    THEN [pc |-> "result",
          run |-> [r EXCEPT
            !.found = findAssistantMessageByUuid(
                        NonBlankLines(fs[r.listing[r.entry]]), r.parent, 1),
            !.parent = ""]]
    ELSE [pc |-> "reference",
          run |-> [r EXCEPT !.entry = @ + 1, !.parent = "", !.hops = 0]]

ParentStep ==
  /\ tpc = "parent"
  /\ tpc' = FollowParent(run).pc
  /\ run' = FollowParent(run).run
  /\ UNCHANGED <<fs, transcriptPath, mtime, attempted, usage, fault>>
  /\ ResolverFrame

\* the call returns
Returns(r, found, tried) ==
  [pc |-> "done", run |-> r, usage |-> found, attempted |-> tried]

\* tryParseTranscriptFile is called for the history file at position i
NextHistoryFile(r, i, tried) ==
  [pc |-> "file",
   run |-> [r EXCEPT !.hist = i, !.file = r.sorted[i], !.leaf = "",
                     !.entry = 0, !.found = Null, !.refs = 0, !.hops = 0],
   usage |-> usage, attempted |-> tried]

\* tryFindUsageFromProjectHistory is called with the files sorted
EnterHistory(r, sorted, tried) ==
  IF Len(sorted) = 0
    THEN Returns([r EXCEPT !.entered = Deeper(@)], Null, tried)
    ELSE NextHistoryFile([r EXCEPT !.sorted = sorted, !.entered = Deeper(@)],
                         1, tried)

\* a resolver that starts the history again when a file of it gives nothing
AfterFileReentering(r) ==
  IF r.hist = 0
    THEN IF ~r.found.null THEN Returns(r, r.found, <<>>)
         ELSE IF ~fs[transcriptPath].exists
           THEN EnterHistory(r, SortByMtime(SessionFiles(r.listing),
                                            Len(SessionFiles(r.listing)), mtime),
                             <<>>)
           ELSE Returns(r, Null, <<>>)
    ELSE IF ~r.found.null THEN Returns(r, r.found, Append(attempted, r.file))
         ELSE EnterHistory(r, r.sorted, <<>>)

\* what follows tryParseTranscriptFile(run.file): of the named file in
\* parseTranscriptUsage, of a history file in the loop of
\* tryFindUsageFromProjectHistory
AfterFile(r) ==
  IF r.hist = 0
    THEN IF ~r.found.null THEN Returns(r, r.found, <<>>)
         ELSE IF ~fs[transcriptPath].exists
           THEN EnterHistory(r, SortByMtime(SessionFiles(r.listing),
                                            Len(SessionFiles(r.listing)), mtime),
                             <<>>)
           ELSE Returns(r, Null, <<>>)
    ELSE IF ~r.found.null THEN Returns(r, r.found, Append(attempted, r.file))
         ELSE IF r.hist < Len(r.sorted)
           THEN NextHistoryFile(r, r.hist + 1, Append(attempted, r.file))
           ELSE Returns(r, Null, Append(attempted, r.file))

FileResultStep ==
  /\ tpc = "result"
  /\ tpc' = AfterFile(run).pc
  /\ run' = AfterFile(run).run
  /\ usage' = AfterFile(run).usage
  /\ attempted' = AfterFile(run).attempted
  /\ UNCHANGED <<fs, transcriptPath, mtime, fault>>
  /\ ResolverFrame

ResolverSteps == InspectStep \/ ReferenceStep \/ ParentStep \/ FileResultStep

NextResolver ==
  \/ \E f \in FileNames : Touch(f)
  \/ \E f \in FileNames : WriteSession(f)
  \/ ResolveBegin
  \/ InspectStep
  \/ ReferenceStep
  \/ ParentStep
  \/ FileResultStep

(***************************************************************************)
(* Subscription lookup: getSubscriptionDetails.                            *)
(***************************************************************************)
NoSubCall ==
  [pc |-> "idle", creds |-> FALSE, failure |-> "none", threw |-> FALSE,
   data |-> SubNull]

SubscriptionIdle == subCall = NoSubCall

\* a catch block that passes the failure on to the caller
OnSubscriptionFailureRethrow(call, failure) ==
  [call EXCEPT !.pc = "done", !.failure = failure, !.threw = TRUE]

\* catch (error) { return null }
OnSubscriptionFailure(call, failure) ==
  [call EXCEPT !.pc = "done", !.failure = failure, !.data = SubNull]

\* getSubscriptionDetails(): the request goes out with the credentials the
\* object holds, set or not
SubscriptionCall ==
  /\ subCall.pc # "await"
  /\ subCall' = [NoSubCall EXCEPT !.pc = "await", !.creds = ~MissingCredentials]
  /\ UNCHANGED cacheVars
  /\ SubscriptionFrame

\* the awaited request answers (the server answers no request that carries
\* no credentials): return response.data
SubscriptionResponse ==
  /\ subCall.pc = "await"
  /\ subCall.creds
  /\ \E data \in SubscriptionPayloads :
       subCall' = [subCall EXCEPT !.pc = "done", !.data = data]
  /\ UNCHANGED cacheVars
  /\ SubscriptionFrame

\* the awaited request fails
SubscriptionFailure ==
  /\ subCall.pc = "await"
  /\ \E failure \in HttpFailures :
       subCall' = OnSubscriptionFailure(subCall, failure)
  /\ UNCHANGED cacheVars
  /\ SubscriptionFrame

NextSubscription ==
  \/ SubscriptionCall
  \/ SubscriptionResponse
  \/ SubscriptionFailure
  \/ SetCredentials
  \/ \E c \in Callers : UsageCall(c)
  \/ \E c \in Callers : UsageResponse(c)

(***************************************************************************)
(* Refresh cycle of the extension: updateStatus.                           *)
(***************************************************************************)
BILLING_CACHE_DURATION == 30000

\* the amounts by which the clock advances between two events of a refresh
CycleTickSteps == {BILLING_CACHE_DURATION, BILLING_CACHE_DURATION + 1}

\* a subscription payload whose end time is a number, not a string
SubNumericEndTime(t) == [k |-> "numeric end time", ms |-> t]

\* what the joined subscription lookup may give a cycle (null on a failure)
CycleSubscriptions ==
  {SubNull, SubBadEndTime, SubEndTime(24 * DayMs), SubNumericEndTime(24 * DayMs)}

\* the model entry of a well-formed quota payload
GoodModel ==
  [model_name |-> "MiniMax-M2", start_time |-> 0, end_time |-> 5 * HourMs,
   remains_time |-> HourMs, current_interval_usage_count |-> 1,
   current_interval_total_count |-> 3]

\* the body of the quota payload with the given number: every second answer
\* of the server carries no model entry
QuotaContent(id) ==
  IF id % 2 = 1 THEN [has |-> TRUE, model_remains |-> <<GoodModel>>]
  ELSE [has |-> TRUE, model_remains |-> <<>>]

\* a billing record, and a null standing in a list in place of a record
CycleRecord(tokens, createdAt) ==
  [null |-> FALSE, consume_token |-> JsNumber(tokens),
   created_at |-> JsNumber(createdAt)]
NullRecord ==
  [null |-> TRUE, consume_token |-> JsUndefined, created_at |-> JsUndefined]

\* what the awaited getAllBillingRecords(10) may do: throw, or give a list
BillingFetches ==
  {[threw |-> TRUE, records |-> <<>>]}
  \cup {[threw |-> FALSE, records |-> l] :
          l \in {<<>>, <<CycleRecord(1, 10)>>, <<CycleRecord(2, 20)>>,
                 <<NullRecord>>}}

NoBillingCache == [set |-> FALSE, records |-> <<>>]

\* an updateStatus call: sub and now are its locals while it awaits the
\* billing records, used the records it aggregated; planKnown says that
\* planStartTime > 0, planStart and planEnd are what calculateUsageStats was
\* called with (-1: it was not called) and stats what was shown
NoCycle ==
  [pc |-> "idle", primary |-> "none", sub |-> SubNull, now |-> 0,
   fetched |-> FALSE, outcome |-> "none", error |-> "", used |-> <<>>,
   planKnown |-> FALSE, planStart |-> -1, planEnd |-> 0, stats |-> ZeroStats]

NoFetch == [cycle |-> 0, threw |-> FALSE, records |-> <<>>, now |-> 0]

\* a billing cache that expires at exactly BILLING_CACHE_DURATION
BillingStaleInclusive(now) ==
  ~billingCache.set \/ now - billingCacheTime >= BILLING_CACHE_DURATION

\* !billingCache || now - billingCacheTime > BILLING_CACHE_DURATION
BillingStale(now) ==
  ~billingCache.set \/ now - billingCacheTime > BILLING_CACHE_DURATION

\* a billing cache that only the first fetch to settle may fill
WriteBillingCacheOnce(fetch, now) ==
  IF billingCache.set
    THEN [cache |-> billingCache, time |-> billingCacheTime]
    ELSE [cache |-> [set |-> TRUE, records |-> fetch.records],
          time |-> IF fetch.threw THEN billingCacheTime ELSE now]

\* lines 50 to 57 of updateStatus: billingCache = billingRecords and
\* billingCacheTime = now, or billingCache = [] in the catch block, which
\* leaves billingCacheTime as it is
WriteBillingCache(fetch, now) ==
  [cache |-> [set |-> TRUE, records |-> fetch.records],
   time |-> IF fetch.threw THEN billingCacheTime ELSE now]

\* planStartTime of updateStatus: 0, or 30 days before the end time; the
\* end time is split as a string, which throws when it is none
PlanStart(sub) ==
  IF ~(HasEndTime(sub) \/ sub.k = "numeric end time")
    THEN [threw |-> FALSE, ms |-> 0]
    ELSE IF sub.k = "numeric end time"
      THEN [threw |-> TRUE, ms |-> 0]
      ELSE IF sub.k = "bad end time"
        THEN \* new Date(NaN, ...).getTime() is NaN, and NaN > 0 is false
             [threw |-> FALSE, ms |-> 0]
        ELSE \* new Date(year, month - 1, day - 30): midnight, 30 days before
             [threw |-> FALSE, ms |-> (sub.ms \div DayMs - 30) * DayMs]

RECURSIVE MinTimestamp(_, _, _)
\* the loop over billingCache that finds minTimestamp (-1 is Infinity);
\* reading created_at of a null throws
MinTimestamp(recs, i, min) ==
  IF i > Len(recs) THEN [threw |-> FALSE, ms |-> min]
  ELSE IF recs[i].null THEN [threw |-> TRUE, ms |-> 0]
  ELSE LET createdAt == CreatedAtMs(recs[i])
       IN MinTimestamp(recs, i + 1,
                       IF min < 0 \/ createdAt < min THEN createdAt ELSE min)

\* lines 60 to 95 of updateStatus: the statistics, or the error thrown
UsageStats(sub, recs, now, clk) ==
  LET planStart == PlanStart(sub)
      minTimestamp == MinTimestamp(recs, 1, -1)
  IN IF planStart.threw
       THEN [threw |-> TRUE, error |-> "expiryDateStr.split is not a function",
             stats |-> ZeroStats, planKnown |-> FALSE, planStart |-> -1]
       ELSE IF Len(recs) = 0
         THEN [threw |-> FALSE, error |-> "", stats |-> ZeroStats,
               planKnown |-> planStart.ms > 0, planStart |-> -1]
         ELSE IF minTimestamp.threw
           THEN [threw |-> TRUE, error |-> "Cannot read properties of null",
                 stats |-> ZeroStats, planKnown |-> planStart.ms > 0,
                 planStart |-> -1]
           ELSE [threw |-> FALSE, error |-> "",
                 stats |-> calculateUsageStats(recs,
                             IF planStart.ms > 0 THEN planStart.ms
                             ELSE minTimestamp.ms, now, clk),
                 planKnown |-> planStart.ms > 0,
                 planStart |-> IF planStart.ms > 0 THEN planStart.ms
                               ELSE minTimestamp.ms]

\* updateStatusBar: the status bar shows the snapshot of cycle c
updateStatusBar(c) == [kind |-> "status", cycle |-> c, error |-> ""]

\* the catch block of updateStatus: it reads language, which is declared
\* inside the try block and so is not defined here; the ReferenceError ends
\* the call before statusBarItem is written
CatchBlock(bar, c, error) ==
  [bar |-> bar, outcome |-> "rejected", error |-> "language is not defined"]

\* the catch block runs for cycle c, whose record is cyc
CycleFails(c, cyc, error) ==
  LET caught == CatchBlock(statusBar, c, error)
  IN /\ statusBar' = caught.bar
     /\ cycles' = [cycles EXCEPT ![c] =
                     [cyc EXCEPT !.pc = "done", !.outcome = caught.outcome,
                                 !.error = error, !.sub = SubNull, !.now = 0]]

\* updateStatus from line 60 on, over the records that billingCache holds
CycleFinishes(c, cyc, recs) ==
  LET usageStats == UsageStats(cyc.sub, recs, cyc.now, clock)
  IN IF usageStats.threw
       THEN CycleFails(c, cyc, usageStats.error)
       ELSE /\ statusBar' = updateStatusBar(c)
            /\ cycles' = [cycles EXCEPT ![c] =
                            [cyc EXCEPT !.pc = "done", !.outcome = "rendered",
                                        !.used = recs, !.sub = SubNull,
                                        !.now = 0,
                                        !.planKnown = usageStats.planKnown,
                                        !.planStart = usageStats.planStart,
                                        !.planEnd = cyc.now,
                                        !.stats = usageStats.stats]]

CycleIdle ==
  /\ billingCache = NoBillingCache
  /\ billingCacheTime = 0
  /\ statusBar = [kind |-> "none", cycle |-> 0, error |-> ""]
  /\ cycles = [c \in Callers |-> NoCycle]
  /\ completed = NoFetch

\* after activate: the status bar asks for the configuration or shows that
\* it is loading
CycleStart ==
  /\ billingCache = NoBillingCache
  /\ billingCacheTime = 0
  /\ statusBar = [kind |-> IF MissingCredentials THEN "setup" ELSE "loading",
                  cycle |-> 0, error |-> ""]
  /\ cycles = [c \in Callers |-> NoCycle]
  /\ completed = NoFetch

\* time passes
CycleTick ==
  /\ ticks < MaxCycleTicks
  /\ \E d \in CycleTickSteps : clock' = clock + d
  /\ ticks' = ticks + 1
  /\ UNCHANGED <<token, groupId, cache, calls, ncalls, nreq>>
  /\ UNCHANGED cycleVars
  /\ CycleFrame

\* updateStatus up to its await of Promise.all (a new refresh takes the
\* first cycle that is not under way)
CycleBegin(c) ==
  /\ cycles[c].pc \in {"idle", "done"}
  /\ \A d \in Callers : d < c => cycles[d].pc \notin {"idle", "done"}
  /\ ncalls < MaxCycles
  /\ ncalls' = ncalls + 1
  /\ getUsageStatus(c, FALSE)
  /\ cycles' = [cycles EXCEPT ![c] = [NoCycle EXCEPT !.pc = "quota"]]
  /\ UNCHANGED <<token, groupId, cache, clock, ticks>>
  /\ UNCHANGED <<billingCache, billingCacheTime, statusBar, completed>>
  /\ CycleFrame

\* Promise.all settles: parseUsageData, then the billing cache test
CycleJoin(c) ==
  /\ cycles[c].pc = "quota"
  /\ calls[c].pc = "done"
  /\ IF calls[c].kind = "error"
       THEN CycleFails(c, [cycles[c] EXCEPT !.primary = "failed"],
                       calls[c].error)
       ELSE \E sub \in CycleSubscriptions :
              LET usageData ==
                    parseUsageData(QuotaContent(calls[c].data), sub, clock)
                  now == clock
              IN IF usageData.threw
                   THEN CycleFails(c, [cycles[c] EXCEPT !.primary = "failed"],
                                   usageData.error)
                   ELSE IF BillingStale(now)
                     THEN /\ cycles' = [cycles EXCEPT ![c] =
                                 [cycles[c] EXCEPT !.pc = "billing",
                                    !.primary = "ok", !.sub = sub,
                                    !.now = now, !.fetched = TRUE]]
                          /\ statusBar' = statusBar
                     ELSE CycleFinishes(c,
                            [cycles[c] EXCEPT !.primary = "ok", !.sub = sub,
                                              !.now = now],
                            billingCache.records)
  /\ UNCHANGED <<billingCache, billingCacheTime, completed>>
  /\ UNCHANGED cacheVars
  /\ CycleFrame

\* the awaited getAllBillingRecords settles: the cache is written, and the
\* cycle goes on to its end
CycleBillingDone(c) ==
  /\ cycles[c].pc = "billing"
  /\ \E fetch \in BillingFetches :
       /\ billingCache' = WriteBillingCache(fetch, cycles[c].now).cache
       /\ billingCacheTime' = WriteBillingCache(fetch, cycles[c].now).time
       /\ completed' = [cycle |-> c, threw |-> fetch.threw,
                        records |-> fetch.records, now |-> cycles[c].now]
       /\ CycleFinishes(c, cycles[c], fetch.records)
  /\ UNCHANGED cacheVars
  /\ CycleFrame

NextCycle ==
  \/ CycleTick
  \/ \E c \in Callers : CycleBegin(c)
  \/ \E c \in Callers : UsageResponse(c)
  \/ \E c \in Callers : UsageFailure(c)
  \/ \E c \in Callers : CycleJoin(c)
  \/ \E c \in Callers : CycleBillingDone(c)

(***************************************************************************)
(* The two fetches of a refresh, joined by Promise.all: updateStatus of    *)
(* the extension and the statusline command.                               *)
(***************************************************************************)

\* the refresh: sub is the subscriptionData the join gave, error the error
\* that ended the refresh
NoJoin == [pc |-> "idle", sub |-> SubNull, error |-> ""]

JoinIdle == join = NoJoin

\* the caller whose refresh is followed
Refresher == 1

\* api.getSubscriptionDetails().catch(() => null)
JoinedSubscription(call) == IF call.threw THEN SubNull ELSE call.data

\* a join that waits for the quota fetch only
AllFulfilledQuotaOnly ==
  calls[Refresher].pc = "done" /\ calls[Refresher].kind = "ok"

\* await Promise.all([...]) is fulfilled: both promises are
AllFulfilled ==
  /\ calls[Refresher].pc = "done"
  /\ calls[Refresher].kind = "ok"
  /\ subCall.pc = "done"

\* await Promise.all([...]) is rejected: the quota fetch is, whatever the
\* state of the subscription lookup, whose promise never rejects
AnyRejected ==
  calls[Refresher].pc = "done" /\ calls[Refresher].kind = "error"

\* the refresh up to its await: api.getUsageStatus() runs up to its own
\* await, then api.getSubscriptionDetails() up to its own
JoinBegin ==
  /\ join.pc \in {"idle", "aggregated", "failed"}
  /\ subCall.pc # "await"
  /\ ncalls < MaxCalls
  /\ ncalls' = ncalls + 1
  /\ getUsageStatus(Refresher, FALSE)
  /\ subCall' = [NoSubCall EXCEPT !.pc = "await", !.creds = ~MissingCredentials]
  /\ join' = [NoJoin EXCEPT !.pc = "awaiting"]
  /\ UNCHANGED <<token, groupId, cache, clock, ticks>>
  /\ JoinFrame

\* the join is fulfilled: api.parseUsageData(apiData, subscriptionData)
JoinResolve ==
  /\ join.pc = "awaiting"
  /\ AllFulfilled
  /\ join' =
       IF parseUsageData(QuotaContent(calls[Refresher].data),
                         JoinedSubscription(subCall), clock).threw
         THEN [pc |-> "failed", sub |-> JoinedSubscription(subCall),
               error |-> "No usage data available"]
         ELSE [pc |-> "parsed", sub |-> JoinedSubscription(subCall),
               error |-> ""]
  /\ UNCHANGED <<cacheVars, subscriptionVars>>
  /\ JoinFrame

\* the join is rejected: the catch block
JoinReject ==
  /\ join.pc = "awaiting"
  /\ AnyRejected
  /\ join' = [pc |-> "failed", sub |-> SubNull,
              error |-> calls[Refresher].error]
  /\ UNCHANGED <<cacheVars, subscriptionVars>>
  /\ JoinFrame

\* the statistics are computed and the snapshot is shown
JoinAggregate ==
  /\ join.pc = "parsed"
  /\ join' = [join EXCEPT !.pc = "aggregated"]
  /\ UNCHANGED <<cacheVars, subscriptionVars>>
  /\ JoinFrame

NextJoin ==
  \/ Tick
  \/ JoinBegin
  \/ UsageResponse(Refresher)
  \/ UsageFailure(Refresher)
  \/ SubscriptionResponse
  \/ SubscriptionFailure
  \/ JoinResolve
  \/ JoinReject
  \/ JoinAggregate

(***************************************************************************)
(* The statusline command: the context usage it shows.                     *)
(***************************************************************************)
\* let contextSize = 200000, and the value of every MODEL_CONTEXT_SIZES key
DefaultContextSize == 200000
MODEL_CONTEXT_SIZES ==
  [key \in {"minimax-m2", "minimax-m2-stable", "minimax-m1",
            "minimax-m1-stable"} |-> 200000]

\* the model ids tried: none, one of the table and one that is not
ModelIds == {"", "minimax-m2", "claude-sonnet"}

\* the lookup of the context size (a model id is taken to hold a key of
\* the table when it is one)
ContextSizeOf(modelId) ==
  IF modelId \in DOMAIN MODEL_CONTEXT_SIZES
    THEN MODEL_CONTEXT_SIZES[modelId]
    ELSE DefaultContextSize

\* what parseTranscriptUsage may give: null, or a token count
TranscriptTokens ==
  {Null} \cup {Some(n) : n \in {0, 1, 999, 1000, 119000, 120000, 169000,
                                 170000, 250000}}

\* the percentages of the account quota tried
QuotaPercentages == {0, 40, 60, 85}

\* contextUsagePercentage: null unless contextUsageTokens is truthy
ContextUsagePercentage(tokens, contextSize) ==
  IF tokens.null \/ tokens.n = 0 THEN Null
  ELSE Some(RoundPercent(tokens.n, contextSize).n)

\* contextUsagePercentage || percentage
DisplayPercentage(contextUsagePercentage, percentage) ==
  IF ~contextUsagePercentage.null /\ contextUsagePercentage.n # 0
    THEN contextUsagePercentage.n
    ELSE percentage

\* >= 85 red, >= 60 yellow, green below
ColourOf(percentage) ==
  IF percentage >= 85 THEN "red"
  ELSE IF percentage >= 60 THEN "yellow" ELSE "green"

NoContext == [context |-> FALSE, percent |-> 0, colour |-> "none"]

\* the context part of the line: with a token count, the percentage shown
\* and its colour; without one, the size of the window only
ContextPart(tokens, contextSize, percentage) ==
  IF tokens.null \/ tokens.n = 0 THEN NoContext
  ELSE [context |-> TRUE,
        percent |-> DisplayPercentage(
                      ContextUsagePercentage(tokens, contextSize), percentage),
        colour |-> ColourOf(DisplayPercentage(
                      ContextUsagePercentage(tokens, contextSize), percentage))]

NoLine ==
  [pc |-> "idle", tokens |-> Null, modelId |-> "", percentage |-> 0,
   shown |-> NoContext]

StatuslineIdle == statusline = NoLine

\* the command has the snapshot, the model id and the resolver's answer
StatuslineStart ==
  statusline \in [pc : {"ready"}, tokens : TranscriptTokens,
                  modelId : ModelIds, percentage : QuotaPercentages,
                  shown : {NoContext}]

\* the line is built and printed
RenderLine ==
  /\ statusline.pc = "ready"
  /\ statusline' =
       [statusline EXCEPT
          !.pc = "done",
          !.shown = ContextPart(statusline.tokens,
                                ContextSizeOf(statusline.modelId),
                                statusline.percentage)]
  /\ StatuslineFrame

NextStatusline == RenderLine

NextTranscriptFaults == NextTranscript \/ FileSystemFails

NextBilling == BillingRequest \/ BillingReturn \/ BillingSettle

\* the components a specification does not exercise
RestIdle ==
  /\ SubscriptionIdle /\ CycleIdle /\ TokensIdle /\ ResolverIdle /\ JoinIdle
  /\ StatuslineIdle

InitTranscript ==
  /\ TranscriptStart /\ BillingIdle /\ CacheIdle /\ StatsIdle /\ ParseIdle
  /\ RestIdle

SpecTranscript == InitTranscript /\ [][NextTranscript]_vars

SpecResolver == InitTranscript /\ [][NextResolver]_vars

\* a call under way is not left waiting for ever
FairResolver == SpecResolver /\ WF_vars(ResolverSteps)

InitParse ==
  /\ ParseStart /\ BillingIdle /\ CacheIdle /\ StatsIdle /\ TranscriptIdle
  /\ RestIdle

SpecParse == InitParse /\ [][NextParse]_vars

InitStats ==
  /\ StatsStart /\ BillingIdle /\ CacheIdle /\ ParseIdle /\ TranscriptIdle
  /\ RestIdle

SpecStats == InitStats /\ [][NextStats]_vars

InitBilling ==
  /\ BillingStart /\ CacheIdle /\ StatsIdle /\ ParseIdle /\ TranscriptIdle
  /\ RestIdle

SpecBilling == InitBilling /\ [][NextBilling]_vars

InitCache ==
  /\ CacheStart /\ BillingIdle /\ StatsIdle /\ ParseIdle /\ TranscriptIdle
  /\ RestIdle

SpecCache == InitCache /\ [][NextCache]_vars

\* every HTTP call carries a 10 s timeout, so an awaited request settles,
\* and the steps between two awaits run to completion
FairBilling == SpecBilling /\ WF_vars(NextBilling)

InitSubscription ==
  /\ CacheStart /\ SubscriptionIdle
  /\ BillingIdle /\ StatsIdle /\ ParseIdle /\ TranscriptIdle /\ CycleIdle
  /\ TokensIdle /\ ResolverIdle /\ JoinIdle
  /\ StatuslineIdle

SpecSubscription == InitSubscription /\ [][NextSubscription]_vars

SpecTranscriptFaults == InitTranscript /\ [][NextTranscriptFaults]_vars

InitTokens ==
  /\ TokensStart /\ BillingIdle /\ CacheIdle /\ StatsIdle /\ ParseIdle
  /\ TranscriptIdle /\ SubscriptionIdle /\ CycleIdle /\ ResolverIdle
  /\ JoinIdle /\ StatuslineIdle

SpecTokens == InitTokens /\ [][NextTokens]_vars

InitCycle ==
  /\ CacheStart /\ CycleStart
  /\ BillingIdle /\ StatsIdle /\ ParseIdle /\ TranscriptIdle
  /\ SubscriptionIdle /\ TokensIdle /\ ResolverIdle /\ JoinIdle
  /\ StatuslineIdle

SpecCycle == InitCycle /\ [][NextCycle]_vars

InitJoin ==
  /\ CacheStart /\ SubscriptionIdle /\ JoinIdle
  /\ BillingIdle /\ StatsIdle /\ ParseIdle /\ TranscriptIdle /\ CycleIdle
  /\ TokensIdle /\ ResolverIdle /\ StatuslineIdle

SpecJoin == InitJoin /\ [][NextJoin]_vars

InitStatusline ==
  /\ StatuslineStart
  /\ BillingIdle /\ CacheIdle /\ StatsIdle /\ ParseIdle /\ TranscriptIdle
  /\ SubscriptionIdle /\ CycleIdle /\ TokensIdle /\ ResolverIdle /\ JoinIdle

SpecStatusline == InitStatusline /\ [][NextStatusline]_vars

(***************************************************************************)
(* Claims about the billing paginator.                                     *)
(***************************************************************************)
\* the number of records the i-th answered request returned
ReturnedCount(i) ==
  IF replies[i].ok /\ replies[i].has THEN Len(replies[i].recs) ELSE 0

\* the i-th request was answered with a page of 0 or fewer than 100 records
StoppingPage(i) == replies[i].ok /\ ReturnedCount(i) < 100

C1_Bounded ==
  /\ Len(issued) <= maxPages
  /\ \A i \in 1..Len(replies) : StoppingPage(i) => Len(issued) = i

\* C1: for every maxPages >= 0 and every sequence of page responses the call
\* terminates, it issues at most maxPages page requests, and it issues no
\* request after the first page that returned 0 or fewer than 100 records.
C1_PaginationTerminates == [](C1_Bounded) /\ <>(bpc = "done")

\* a call allowed four pages that stopped at its second page, a short one
C1_Witness ==
  /\ bpc = "done"
  /\ maxPages >= 3
  /\ Len(issued) = 2
  /\ Len(replies) = 2
  /\ ReturnedCount(1) = 100
  /\ ReturnedCount(2) = 99

RECURSIVE ConcatPages(_)
\* the records of the pages 1..k, in page order
ConcatPages(k) ==
  IF k = 0 THEN <<>>
  ELSE ConcatPages(k - 1) \o (IF replies[k].ok /\ replies[k].has
                                THEN replies[k].recs ELSE <<>>)

\* C2: when the request for page k fails no further request is issued,
\* nothing is raised and the call returns the records of pages 1..k-1 in page
\* order; without a failure it returns the records of every page fetched, the
\* terminating page included.
C2_PartialResults ==
  /\ \A k \in 1..Len(replies) :
        ~replies[k].ok =>
          /\ Len(issued) = k
          /\ bpc = "done"
          /\ ~bresult.threw
          /\ bresult.records = ConcatPages(k - 1)
  /\ (bpc = "done" /\ \A k \in 1..Len(replies) : replies[k].ok) =>
        /\ ~bresult.threw
        /\ bresult.records = ConcatPages(Len(replies))
  /\ \A i \in 1..Len(issued) : issued[i] = i

\* the third page failed after two full pages were collected
C2_Witness ==
  /\ bpc = "done"
  /\ Len(replies) = 3
  /\ ~replies[3].ok
  /\ Len(bresult.records) = 200

(***************************************************************************)
(* Claims about the quota response cache.  A finished or awaiting call     *)
(* keeps what it saw when it started: its clock reading (now), the cache   *)
(* entry (seen), whether the credentials were there (creds), and the       *)
(* number of requests it issued (reqs).  Every request gets a payload of   *)
(* its own, so a fetched payload is never the one that was cached.         *)
(***************************************************************************)
\* the calls that have started
StartedCalls == {c \in Callers : calls[c].pc # "idle"}

\* the age, at the start of call c, of the cache entry it found
AgeSeen(c) == calls[c].now - calls[c].seen.timestamp

\* C3: a call with forceRefresh = false that starts 8000 ms or more after the
\* recorded fetch time of the cache entry never returns the cached payload;
\* having passed the credentials check, it issues a new request instead.
C3_NoStaleHit ==
  \A c \in StartedCalls :
    (~calls[c].force /\ calls[c].seen.data # 0 /\ AgeSeen(c) >= 8000) =>
      /\ calls[c].kind = "ok" => (calls[c].data # calls[c].seen.data
                                   /\ calls[c].reqs = 1)
      /\ calls[c].creds => calls[c].reqs = 1

\* a call that found an entry exactly 8000 ms old and returned a new payload
C3_Witness ==
  \E c \in Callers :
    /\ calls[c].pc = "done"
    /\ calls[c].kind = "ok"
    /\ ~calls[c].force
    /\ calls[c].seen.data # 0
    /\ AgeSeen(c) = 8000
    /\ calls[c].reqs = 1

\* C4: once a call has stored payload P with its start time as the fetch
\* time, every later call with forceRefresh = false that finds P in the cache
\* less than 8000 ms after the fetch time returns P and issues no request; a
\* call that finds it 8000 ms or more after the fetch time issues a new fetch.
C4_HitWithinTtl ==
  /\ \A c \in StartedCalls :
        (calls[c].kind = "ok" /\ calls[c].reqs = 1 /\ cache.data = calls[c].data)
          => cache.timestamp = calls[c].now
  /\ \A c \in StartedCalls :
        (~calls[c].force /\ calls[c].creds /\ calls[c].seen.data # 0) =>
          /\ AgeSeen(c) < 8000 =>
                /\ calls[c].pc = "done"
                /\ calls[c].kind = "ok"
                /\ calls[c].data = calls[c].seen.data
                /\ calls[c].reqs = 0
          /\ AgeSeen(c) >= 8000 => calls[c].reqs = 1

\* a call served from a cache entry 7999 ms old
C4_Witness ==
  \E c \in Callers :
    /\ calls[c].pc = "done"
    /\ calls[c].kind = "ok"
    /\ ~calls[c].force
    /\ calls[c].reqs = 0
    /\ calls[c].data = calls[c].seen.data
    /\ AgeSeen(c) = 7999

(***************************************************************************)
(* Claims about the usage aggregator.                                      *)
(***************************************************************************)
\* every record carries a creation time
AllDated == \A i \in 1..Len(records) : records[i].created_at.t = "number"

RECURSIVE SumTokens(_)
\* the sum of the token counts of the records at the positions in I
SumTokens(I) ==
  IF I = {} THEN 0
  ELSE LET i == CHOOSE j \in I : TRUE
       IN records[i].consume_token.n + SumTokens(I \ {i})

\* the positions of the records created within [s, e], both ends included
InWindow(s, e) ==
  {i \in 1..Len(records) :
     s <= records[i].created_at.n * 1000 /\ records[i].created_at.n * 1000 <= e}

\* C5: for every list of billing records and every window [s, e] in ms,
\* planTotalUsage is the sum of consume_token over exactly the records with
\* s <= created_at * 1000 <= e, both ends included.
C5_PlanTotal ==
  (spc = "done" /\ AllDated) =>
    stats.planTotalUsage = SumTokens(InWindow(planStartTime, planEndTime))

\* a record created in the window's first millisecond and one created in its
\* last are both counted
C5_Witness ==
  /\ spc = "done"
  /\ Len(records) = 2
  /\ records[1].created_at = JsNumber(7 * 86400)
  /\ records[2].created_at = JsNumber(8 * 86400 - 1)
  /\ planStartTime = 604800000
  /\ planEndTime = 691199000
  /\ records[1].consume_token.n = 1
  /\ records[2].consume_token.n = 20
  /\ stats.planTotalUsage = 21

(***************************************************************************)
(* Claims about the snapshot parser.                                       *)
(***************************************************************************)
\* the model list of the payload is there and not empty
HasModel == apiData.has /\ Len(apiData.model_remains) > 0

\* C6: for every payload with a non-empty model list, integer totalCount >= 0
\* and integer remainingCount, the usedPercentage of the snapshot is an
\* integer in [0, 100], and it is 0 when totalCount is 0.
C6_PercentageInRange ==
  (ppc = "done" /\ HasModel) =>
    /\ ~parsed.threw
    /\ parsed.snapshot.usage.percentage.k = "finite"
    /\ parsed.snapshot.usage.percentage.n \in 0..100
    /\ apiData.model_remains[1].current_interval_total_count = 0
         => parsed.snapshot.usage.percentage.n = 0

\* C7: parseUsageData on a payload whose model list is missing or empty
\* fails with an error and returns no snapshot, whatever the subscription
\* payload is.
C7_EmptyListFails ==
  (ppc = "done" /\ ~HasModel) =>
    /\ parsed.threw
    /\ parsed.error = "No usage data available"
    /\ parsed.snapshot = NoSnapshot

\* an empty model list given together with a subscription that has an end time
C7_Witness ==
  /\ ppc = "done"
  /\ apiData.has
  /\ apiData.model_remains = <<>>
  /\ subscriptionData = SubEndTime(9 * DayMs)
  /\ parsed.threw


(***************************************************************************)
(* Transcript resolver: malformed lines, summaries, project history.       *)
(***************************************************************************)
\* the directory with every line JSON.parse rejects taken out of its files
WithoutMalformed(dir) ==
  [f \in FileNames |->
     [exists |-> dir[f].exists,
      lines |-> SelectSeq(dir[f].lines, LAMBDA l : JsonParse(l).k # "bad")]]

\* C8: wherever a malformed line stands in a file, the last line included,
\* it is skipped: the call returns what it returns for the same directory
\* with the malformed lines taken out
C8_MalformedSkipped ==
  tpc = "done" =>
    \E entries \in Listings :
      usage = parseTranscriptUsage(WithoutMalformed(fs), entries, mtime,
                                   transcriptPath).usage

\* the last line of the named file, when the file is there and has lines
LastEntryOfNamed ==
  IF fs[transcriptPath].exists /\ Len(NonBlankLines(fs[transcriptPath])) > 0
    THEN JsonParse(NonBlankLines(fs[transcriptPath])
                     [Len(NonBlankLines(fs[transcriptPath]))])
    ELSE Malformed

\* the entries of the .jsonl files of the directory
JsonlEntries ==
  {JsonParse(fs[f].lines[i]) :
     <<f, i>> \in {x \in FileNames \X (1..MaxLines + 1) :
                     IsJsonl(x[1]) /\ fs[x[1]].exists
                     /\ x[2] <= Len(fs[x[1]].lines)}}

\* C9: when the named file ends with a summary whose leafUuid is u, and a
\* .jsonl file of the directory holds an assistant entry with uuid u that
\* carries usage, the call returns calculateUsageTokens of that usage
C9_SummaryResolves ==
  (/\ tpc = "done"
   /\ LastEntryOfNamed.type = "summary"
   /\ LastEntryOfNamed.leafUuid # "")
  => \A entry \in JsonlEntries :
       (/\ entry.type = "assistant"
        /\ entry.uuid = LastEntryOfNamed.leafUuid
        /\ entry.hasUsage)
       => usage = Some(calculateUsageTokens(entry.usage))

\* a summary at the end of a.jsonl names the assistant entry u1 that only
\* b.jsonl holds, below an entry of its own with other figures: the call
\* returns the 42 tokens of u1
C9_Witness ==
  /\ tpc = "done"
  /\ transcriptPath = "a.jsonl"
  /\ fs["a.jsonl"].lines = <<"assistant u2 input_tokens 7", "summary leaf u1">>
  /\ fs["b.jsonl"].lines = <<"assistant u1 output_tokens 42">>
  /\ usage = Some(42)

\* the .jsonl files that are there
JsonlFiles == {f \in Existing : IsJsonl(f)}

\* the files of a sequence
Range(seq) == {seq[i] : i \in 1..Len(seq)}

\* C10: when the named file is missing, the .jsonl files of the directory
\* are tried newest first (no file is tried before a newer one, none twice,
\* none that is newer than a tried one is left out), every file tried before
\* the last yields no usage, a usage returned is what the last file tried
\* yields, and null is returned only when every .jsonl file was tried and
\* yields no usage, or there is none
C10_HistoryOrder ==
  (tpc = "done" /\ ~fs[transcriptPath].exists)
  => \E entries \in Listings :
       /\ Range(attempted) \subseteq JsonlFiles
       /\ \A i, j \in 1..Len(attempted) :
            i < j => /\ attempted[i] # attempted[j]
                     /\ mtime[attempted[i]] >= mtime[attempted[j]]
       /\ \A f \in JsonlFiles \ Range(attempted) :
            \A i \in 1..Len(attempted) : mtime[attempted[i]] >= mtime[f]
       /\ \A i \in 1..Len(attempted) :
            i < Len(attempted)
              => tryParseTranscriptFile(fs, entries, attempted[i]).null
       /\ usage.null
            => /\ Range(attempted) = JsonlFiles
               /\ \A f \in JsonlFiles :
                    tryParseTranscriptFile(fs, entries, f).null
       /\ ~usage.null
            => /\ Len(attempted) > 0
               /\ usage = tryParseTranscriptFile(fs, entries,
                                                 attempted[Len(attempted)])

\* the named file is missing, the newer b.jsonl holds user messages only and
\* is skipped, the older a.jsonl yields the 42 tokens that are returned
C10_Witness ==
  /\ tpc = "done"
  /\ transcriptPath = "n.txt"
  /\ ~fs["n.txt"].exists
  /\ mtime["b.jsonl"] > mtime["a.jsonl"]
  /\ fs["b.jsonl"].lines = <<"user u3 parent u1">>
  /\ attempted = <<"b.jsonl", "a.jsonl">>
  /\ usage = Some(42)


(***************************************************************************)
(* Refresh cycle: what a failure does to the status bar.                   *)
(***************************************************************************)
\* C11: a refresh whose quota fetch and parse succeeded ends with the quota
\* rendered in the status bar, whatever the subscription lookup and the
\* billing fetch gave it: none of their payloads takes it to the catch block
C11_AuxiliaryNeverFails ==
  \A c \in Callers :
    (cycles[c].pc = "done" /\ cycles[c].primary = "ok")
      => cycles[c].outcome = "rendered"

\* C12: the step that ends a refresh whose quota fetch or parse failed
\* leaves the status bar showing the warning with the text of that error,
\* and the call itself does not fail
C12_FailureShown ==
  [][\A c \in Callers :
       (/\ cycles[c].pc # "done"
        /\ cycles'[c].pc = "done"
        /\ cycles'[c].primary = "failed")
       => /\ cycles'[c].outcome # "rejected"
          /\ statusBar'.kind = "warning"
          /\ statusBar'.error = cycles'[c].error]_vars


(***************************************************************************)
(* Transcript resolver under file-system failures.                         *)
(***************************************************************************)
\* C13: whatever the path, the directory and the file-system operation that
\* rejects, parseTranscriptUsage throws nothing: it returns a token count
\* or null
C13_NeverRaises ==
  tpc = "done" =>
    /\ ~usage.threw
    /\ usage = Null \/ (usage.n >= 0 /\ usage = Some(usage.n))

\* the named file is missing and a.jsonl holds usage, but the directory
\* cannot be listed: the call returns null
C13_Witness ==
  /\ tpc = "done"
  /\ fault = "readdir"
  /\ ~fs[transcriptPath].exists
  /\ fs["a.jsonl"].lines = <<"assistant u1 output_tokens 42">>
  /\ usage = Null


(***************************************************************************)
(* Quota response cache: requests per call.                                *)
(***************************************************************************)
\* call c got past the credentials check and found no entry it could serve
MissedCache(c) ==
  /\ calls[c].creds
  /\ \/ calls[c].force
     \/ calls[c].seen.data = 0
     \/ AgeSeen(c) >= cacheTimeout

\* C14: a call that misses the cache, or is forced, has issued exactly one
\* request, also once that request has failed with a 401, a timeout or a
\* connectivity failure; every other call has issued none; and two calls
\* that await at the same time await two requests
C14_OneRequestPerMiss ==
  /\ \A c \in StartedCalls :
       calls[c].reqs = IF MissedCache(c) THEN 1 ELSE 0
  /\ \A c, d \in Callers :
       (c # d /\ calls[c].pc = "await" /\ calls[d].pc = "await")
         => calls[c].req # calls[d].req

\* the first call has failed with a timeout after its one request, while a
\* second call that started during it awaits a request of its own
C14_Witness ==
  /\ calls[1].pc = "done"
  /\ calls[1].kind = "error"
  /\ calls[1].error = "Request timeout"
  /\ calls[1].reqs = 1
  /\ calls[1].req = 1
  /\ calls[2].pc = "await"
  /\ calls[2].req = 2
  /\ calls[2].now = calls[1].now


(***************************************************************************)
(* Refresh cycle: the billing cache.                                       *)
(***************************************************************************)
\* the cycles that are over and have awaited a billing fetch of their own
FetchedCycles == {c \in Callers : cycles[c].pc = "done" /\ cycles[c].fetched}

\* C15: once two cycles that both found the billing cache absent or expired
\* have finished, the cache holds the records of the fetch that settled
\* last, and the fetch time that cycle wrote (its own clock reading; the
\* catch block of a fetch that threw writes the empty list and no time)
C15_LastWriterWins ==
  (FetchedCycles = Callers) =>
    /\ completed.cycle \in Callers
    /\ billingCache = [set |-> TRUE, records |-> completed.records]
    /\ ~completed.threw => billingCacheTime = completed.now
    /\ cycles[completed.cycle].outcome = "rendered"
         => cycles[completed.cycle].used = completed.records

\* no time has passed, so both cycles found the cache absent and awaited
\* their fetches together; the second cycle's fetch settled first, and the
\* cache holds the records of the first cycle, which settled last
C15_Witness ==
  /\ ticks = 0
  /\ FetchedCycles = Callers
  /\ completed.cycle = 1
  /\ cycles[1].used = <<CycleRecord(1, 10)>>
  /\ cycles[2].used = <<CycleRecord(2, 20)>>
  /\ billingCache.records = <<CycleRecord(1, 10)>>


\* cycle c leaves its await of the quota with a snapshot that parsed
JoinsWithSnapshot(c) ==
  /\ cycles[c].pc = "quota"
  /\ cycles'[c].pc # "quota"
  /\ cycles'[c].primary = "ok"

\* C16: a cycle awaits the billing paginator exactly when no record set is
\* cached or the cached set was fetched more than 30 s before the cycle's
\* clock reading; otherwise it ends at once, having aggregated the cached
\* records (an empty list too) and left the billing cache alone; and no
\* step changes both the billing cache and the quota cache
C16_BillingTtl ==
  [][/\ \A c \in Callers :
          JoinsWithSnapshot(c) =>
            /\ cycles'[c].fetched <=>
                 (~billingCache.set \/ clock - billingCacheTime > 30000)
            /\ cycles'[c].fetched => cycles'[c].pc = "billing"
            /\ ~cycles'[c].fetched =>
                 /\ cycles'[c].pc = "done"
                 /\ cycles'[c].outcome = "rendered"
                      => cycles'[c].used = billingCache.records
                 /\ billingCache' = billingCache
                 /\ billingCacheTime' = billingCacheTime
     /\ (billingCache' # billingCache \/ billingCacheTime' # billingCacheTime)
          => cache' = cache
     /\ cache' # cache
          => (billingCache' = billingCache
              /\ billingCacheTime' = billingCacheTime)]_vars

\* exactly 30 s after a fetch that returned no record, a cycle has found
\* the empty list cached, has asked for no billing record and has rendered;
\* the quota cache entry of the same age is past its 8 s by then
C16_Witness ==
  /\ \E c \in Callers :
       /\ cycles[c].pc = "done"
       /\ ~cycles[c].fetched
       /\ cycles[c].outcome = "rendered"
       /\ cycles[c].used = <<>>
  /\ billingCache = [set |-> TRUE, records |-> <<>>]
  /\ ~completed.threw
  /\ clock - billingCacheTime = 30000
  /\ cache.data # 0
  /\ clock - cache.timestamp = 30000


(***************************************************************************)
(* Usage aggregator: yesterday and the trailing week.                      *)
(***************************************************************************)
\* local midnight of the day of the clock reading of the call
TodayMidnight == (statsNow \div DayMs) * DayMs

\* the positions of the records whose time t, in ms, has s <= t < e
InHalfOpen(s, e) ==
  {i \in 1..Len(records) :
     s <= records[i].created_at.n * 1000 /\ records[i].created_at.n * 1000 < e}

C18_TrailingWeek ==
  (spc = "done" /\ AllDated) =>
    stats.weeklyUsage = SumTokens(InWindow(statsNow - WeekMs, statsNow))


(***************************************************************************)
(* Snapshot parser: the expiry.                                            *)
(***************************************************************************)
\* C19: parseUsageData raises no error over the subscription payload, and
\* the snapshot has an expiry exactly when the payload holds a well-formed
\* end time: for a null payload, one without current_subscribe or without
\* an end time, or one whose end time is no date, the expiry is absent
C19_ExpiryOnlyWellFormed ==
  (ppc = "done" /\ HasModel) =>
    /\ ~parsed.threw
    /\ parsed.snapshot.expiry.present <=> subscriptionData.k = "end time"


(***************************************************************************)
(* Subscription lookup: failures.                                          *)
(***************************************************************************)
\* C20: getSubscriptionDetails never raises: whenever its request fails,
\* with a transport error, a timeout, a 401 or because no credentials were
\* set, the call returns null; and no step of the call changes the quota
\* cache
C20_SubscriptionSwallowed ==
  [][subCall' # subCall =>
       /\ ~subCall'.threw
       /\ (subCall'.pc = "done" /\ subCall'.failure # "none")
            => subCall'.data = SubNull
       /\ cache' = cache]_vars

\* a call made before the credentials were set has failed and returned
\* null, next to a quota cache that holds a payload
C20_Witness ==
  /\ subCall.pc = "done"
  /\ ~subCall.creds
  /\ subCall.failure # "none"
  /\ subCall.data = SubNull
  /\ ~subCall.threw
  /\ cache.data # 0


(***************************************************************************)
(* Quota response cache: absent credentials.                               *)
(***************************************************************************)
\* caller c starts a call of getUsageStatus in this step
CallStarts(c) == calls[c].pc # "await" /\ calls'[c] # calls[c]

\* C21: a call of getUsageStatus made while the token or the group id is
\* absent fails with the missing-credentials error: it issues no request,
\* returns no payload, cached or not, and leaves the cache as it was
C21_CredentialsFirst ==
  [][\A c \in Callers :
       (CallStarts(c) /\ MissingCredentials) =>
         /\ calls'[c].pc = "done"
         /\ calls'[c].kind = "error"
         /\ calls'[c].error = "Missing credentials"
         /\ calls'[c].data = 0
         /\ calls'[c].reqs = 0
         /\ nreq' = nreq
         /\ cache' = cache]_vars

\* a call made without credentials has failed although it found an entry
\* younger than 8 s, which is still in the cache
C21_Witness ==
  \E c \in Callers :
    /\ calls[c].pc = "done"
    /\ ~calls[c].creds
    /\ ~calls[c].force
    /\ calls[c].error = "Missing credentials"
    /\ calls[c].seen.data # 0
    /\ calls[c].now - calls[c].seen.timestamp < 8000
    /\ cache = calls[c].seen


(***************************************************************************)
(* Token figures: the priority lists.                                      *)
(***************************************************************************)
\* the priority lists of the four figures, as the values the entry holds
InputList == <<usageEntry.input_tokens, usageEntry.prompt_tokens>>
OutputList == <<usageEntry.output_tokens, usageEntry.completion_tokens>>
CacheCreationList ==
  <<usageEntry.cache_creation_input_tokens,
    usageEntry.cache_creation_prompt_tokens>>
CacheReadList ==
  <<usageEntry.cache_read_input_tokens, usageEntry.cache_read_prompt_tokens,
    usageEntry.cached_tokens, usageEntry.prompt_tokens_details.cached_tokens>>

RECURSIVE FirstNonZero(_, _)
\* the first value of the list, from position i on, that is a number other
\* than 0; 0 when there is none
FirstNonZero(list, i) ==
  IF i > Len(list) THEN 0
  ELSE IF list[i].t = "number" /\ list[i].n # 0 THEN list[i].n
  ELSE FirstNonZero(list, i + 1)

RECURSIVE FirstPresent(_, _)
\* the first value of the list, from position i on, that is present; 0 when
\* there is none
FirstPresent(list, i) ==
  IF i > Len(list) THEN 0
  ELSE IF list[i].t # "undefined" THEN list[i].n
  ELSE FirstPresent(list, i + 1)

\* C22: each of the four figures is the value of the first-listed field of
\* its priority list that carries a non-zero value, whatever the fields
\* listed after it hold
C22_FirstNonZeroWins ==
  upc = "done" =>
    /\ counted.figures.inputTokens = FirstNonZero(InputList, 1)
    /\ counted.figures.outputTokens = FirstNonZero(OutputList, 1)
    /\ counted.figures.cacheCreation = FirstNonZero(CacheCreationList, 1)
    /\ counted.figures.cacheRead = FirstNonZero(CacheReadList, 1)

\* an entry with cache_read_input_tokens 5 and cached_tokens 99 has the
\* cache-read figure 5
C22_Witness ==
  /\ upc = "done"
  /\ usageEntry.cache_read_input_tokens = JsNumber(5)
  /\ usageEntry.cached_tokens = JsNumber(99)
  /\ counted.figures.cacheRead = 5

\* C23: each of the four figures is the value of the first field of its
\* priority list that is present in the entry, also when that value is 0,
\* and is 0 only when no field of the list is present
C23_FirstPresentWins ==
  upc = "done" =>
    /\ counted.figures.inputTokens = FirstPresent(InputList, 1)
    /\ counted.figures.outputTokens = FirstPresent(OutputList, 1)
    /\ counted.figures.cacheCreation = FirstPresent(CacheCreationList, 1)
    /\ counted.figures.cacheRead = FirstPresent(CacheReadList, 1)

\* C24: for an entry of non-negative figures, calculateUsageTokens returns
\* the sum of the four figures when it is positive, otherwise total_tokens
\* when the entry has it, otherwise 0; the number is never negative
C24_SumThenTotal ==
  upc = "done" =>
    /\ counted.tokens =
         IF ContextTokens(counted.figures) > 0
           THEN ContextTokens(counted.figures)
           ELSE IF usageEntry.total_tokens.t # "undefined"
             THEN usageEntry.total_tokens.n
             ELSE 0
    /\ counted.tokens >= 0

\* an entry whose figures are 0 or absent gives its total_tokens
C24_Witness ==
  /\ upc = "done"
  /\ usageEntry.total_tokens = JsNumber(50)
  /\ usageEntry.input_tokens = JsNumber(0)
  /\ ContextTokens(counted.figures) = 0
  /\ counted.tokens = 50


(***************************************************************************)
(* Transcript resolver: the file's own entries.                            *)
(***************************************************************************)
\* the named file is there and can be read
NamedReadable == tpc = "done" /\ fs[transcriptPath].exists

\* the named file ends with a summary that carries a leafUuid
EndsWithReference ==
  LastEntryOfNamed.type = "summary" /\ LastEntryOfNamed.leafUuid # ""

\* the positions of the named file whose entry is an assistant with usage
AssistantPositions ==
  {i \in 1..Len(fs[transcriptPath].lines) :
     /\ JsonParse(fs[transcriptPath].lines[i]).type = "assistant"
     /\ JsonParse(fs[transcriptPath].lines[i]).hasUsage}

\* the largest number of a non-empty set of numbers
Largest(S) == CHOOSE i \in S : \A j \in S : j <= i

\* C25: for a readable file whose last line is no summary with a leafUuid,
\* the call gives the token figure of the assistant entry with usage that
\* stands last in the file, and null when the file holds none
C25_LastAssistant ==
  (NamedReadable /\ ~EndsWithReference) =>
    usage = IF AssistantPositions = {} THEN Null
            ELSE Some(calculateUsageTokens(
                   JsonParse(fs[transcriptPath].lines[Largest(AssistantPositions)])
                     .usage))

\* C26: when the named file ends with a summary that carries a leafUuid,
\* the result is what the search for that leafUuid gives, and the file's
\* own entries are not scanned: when no .jsonl file of the directory
\* resolves the leafUuid the result is null, whatever assistant entries
\* the file holds
C26_ReferenceOnly ==
  (NamedReadable /\ EndsWithReference) =>
    /\ \E entries \in Listings :
         usage = findUsageByLeafUuid(fs, entries, LastEntryOfNamed.leafUuid)
    /\ (\A f \in JsonlFiles :
          searchUuidInFile(fs, f, LastEntryOfNamed.leafUuid).null)
         => usage = Null

\* the named file holds an assistant entry with usage and ends with a
\* summary whose leafUuid no file holds: the result is null
C26_Witness ==
  /\ tpc = "done"
  /\ transcriptPath = "a.jsonl"
  /\ fs["a.jsonl"].lines = <<"assistant u2 input_tokens 7", "summary leaf u3">>
  /\ ~fs["b.jsonl"].exists
  /\ usage = Null

\* C28: the project history is tried only when the named file is missing:
\* when the file is there, no file of the history is tried and the result
\* is what the file itself gives, null included
C28_HistoryOnlyWhenMissing ==
  NamedReadable =>
    /\ attempted = <<>>
    /\ \E entries \in Listings :
         usage = tryParseTranscriptFile(fs, entries, transcriptPath)

\* the named file holds user messages only, next to a file with usage: the
\* result is null and no file of the history was tried
C28_Witness ==
  /\ tpc = "done"
  /\ transcriptPath = "a.jsonl"
  /\ fs["a.jsonl"].lines = <<"user u3 parent u1">>
  /\ fs["b.jsonl"].lines = <<"assistant u1 output_tokens 42">>
  /\ attempted = <<>>
  /\ usage = Null


(***************************************************************************)
(* Billing paginator: the order of the page requests.                      *)
(***************************************************************************)
\* the page requests go out one at a time, for the pages 1, 2, ... in turn
OnePageAtATime ==
  /\ \A i \in 1..Len(issued) : issued[i] = i
  /\ Len(issued) - Len(replies) \in {0, 1}
  /\ Len(issued) - Len(replies) = 1 <=> bpc = "await"

ResolverAgrees ==
  tpc = "done" /\ run # NoRun =>
    /\ usage = parseTranscriptUsage(fs, run.listing, mtime, transcriptPath).usage
    /\ attempted =
         parseTranscriptUsage(fs, run.listing, mtime, transcriptPath).attempted

\* the smallest number of a non-empty set of numbers
Smallest(S) == CHOOSE i \in S : \A j \in S : i <= j

\* the positions of file f whose entry has the identifier id
EntriesWithUuid(f, id) ==
  {i \in 1..Len(fs[f].lines) :
     /\ JsonParse(fs[f].lines[i]).k # "bad"
     /\ JsonParse(fs[f].lines[i]).uuid = id}

\* those of them whose entry is an assistant with usage
AssistantsWithUuid(f, id) ==
  {i \in EntriesWithUuid(f, id) :
     /\ JsonParse(fs[f].lines[i]).type = "assistant"
     /\ JsonParse(fs[f].lines[i]).hasUsage}

\* the token figure of the entry at position i of file f
UsageAt(f, i) == Some(calculateUsageTokens(JsonParse(fs[f].lines[i]).usage))

\* what file f gives for the parent p: the first assistant with usage and
\* that identifier
ParentUsage(f, p) ==
  IF AssistantsWithUuid(f, p) = {} THEN Null
  ELSE UsageAt(f, Smallest(AssistantsWithUuid(f, p)))

\* what file f gives for the identifier leaf, with one hop at most
OneHop(f, leaf) ==
  IF EntriesWithUuid(f, leaf) = {} THEN Null
  ELSE IF Smallest(EntriesWithUuid(f, leaf)) \in AssistantsWithUuid(f, leaf)
    THEN UsageAt(f, Smallest(EntriesWithUuid(f, leaf)))
  ELSE IF /\ JsonParse(fs[f].lines[Smallest(EntriesWithUuid(f, leaf))]).type = "user"
          /\ JsonParse(fs[f].lines[Smallest(EntriesWithUuid(f, leaf))]).parentUuid # ""
    THEN ParentUsage(f,
           JsonParse(fs[f].lines[Smallest(EntriesWithUuid(f, leaf))]).parentUuid)
  ELSE Null

\* the positions of the listing whose file gives a usage for the leaf
FilesWithUsage(listing, leaf) ==
  {i \in 1..Len(listing) : IsJsonl(listing[i]) /\ ~OneHop(listing[i], leaf).null}

\* C27: the search for the leafUuid of the summary gives, of the first
\* file of the listing that gives anything, the usage of the matching
\* entry when it is an assistant with usage, and when it is a user entry
\* with a parent the usage of the first assistant of that same file with
\* the parent's identifier: the parent of the parent is not followed, and
\* no other file is searched for the parent
C27_OneHopSameFile ==
  (NamedReadable /\ EndsWithReference /\ run # NoRun) =>
    usage = IF FilesWithUsage(run.listing, LastEntryOfNamed.leafUuid) = {}
              THEN Null
              ELSE OneHop(run.listing[Smallest(FilesWithUsage(run.listing,
                                          LastEntryOfNamed.leafUuid))],
                          LastEntryOfNamed.leafUuid)

\* the summary names a question whose parent is the answer u1 of the same
\* file: the result is the usage of u1
C27_Witness ==
  /\ tpc = "done"
  /\ transcriptPath = "a.jsonl"
  /\ fs["a.jsonl"].lines =
       <<"assistant u1 output_tokens 42", "user u3 parent u1", "summary leaf u3">>
  /\ ~fs["b.jsonl"].exists
  /\ run.listing = <<"a.jsonl">>
  /\ usage = Some(42)

\* a call of parseTranscriptUsage is under way
Resolving == tpc \in {"file", "reference", "parent", "result"}

\* C29: every call of parseTranscriptUsage returns, whatever the entries
\* of the directory refer to; while a file is resolved at most one summary
\* reference and at most one parent are followed, and the project history
\* is entered at most once in a call
C29_Terminates ==
  /\ [](run.refs <= 1 /\ run.hops <= 1 /\ run.entered <= 1)
  /\ (Resolving ~> tpc = "done")

\* the call has returned null for a summary of a question that is its own
\* parent, after following the summary and the parent once
C29_Witness ==
  /\ tpc = "done"
  /\ transcriptPath = "a.jsonl"
  /\ fs["a.jsonl"].lines = <<"user u5 parent u5", "summary leaf u5">>
  /\ run.listing = <<"a.jsonl">>
  /\ run.refs = 1
  /\ usage = Null

\* the step in which the refresh begins to await the two fetches
JoinBegins == join.pc # "awaiting" /\ join'.pc = "awaiting"

\* the step in which the awaited join is fulfilled
JoinFulfils == join.pc = "awaiting" /\ join'.pc # "awaiting" /\ ~AnyRejected

\* C31: the quota fetch and the subscription lookup of a refresh are
\* started in one step, the snapshot is parsed only when both have
\* settled and the statistics are computed only after the parse; a
\* subscription lookup that failed joins as null, and the refresh then
\* fails only when the parse of the quota payload does
C31_JoinedBeforeParse ==
  /\ [][JoinBegins =>
          /\ subCall'.pc = "await"
          /\ ncalls' = ncalls + 1
          /\ calls'[Refresher].pc \in {"await", "done"}]_vars
  /\ [][JoinFulfils =>
          /\ calls[Refresher].pc = "done"
          /\ subCall.pc = "done"
          /\ subCall.failure # "none" =>
               /\ join'.sub = SubNull
               /\ join'.pc = "failed" =>
                    parseUsageData(QuotaContent(calls[Refresher].data),
                                   SubNull, clock).threw]_vars
  /\ [][join'.pc = "aggregated" => join.pc \in {"parsed", "aggregated"}]_vars

\* the quota was fetched, the subscription lookup failed, and the snapshot
\* was parsed with a null subscription
C31_Witness ==
  /\ join.pc = "parsed"
  /\ calls[Refresher].reqs = 1
  /\ subCall.failure # "none"
  /\ join.sub = SubNull

(***************************************************************************)
(* Refresh cycle: the plan window when the plan start is not known.        *)
(***************************************************************************)
RECURSIVE SumOfTokens(_, _)
\* the sum of the token counts of the first n records of recs
SumOfTokens(recs, n) ==
  IF n = 0 THEN 0 ELSE SumOfTokens(recs, n - 1) + Tokens(recs[n])

\* the creation times, in ms, of the records of recs
CreationTimes(recs) == {CreatedAtMs(recs[i]) : i \in 1..Len(recs)}

\* cycle c showed statistics over records without knowing the plan start
RenderedWithoutPlan(c) ==
  /\ cycles[c].outcome = "rendered"
  /\ ~cycles[c].planKnown
  /\ Len(cycles[c].used) > 0

\* C32: a cycle that does not know the plan start passes the smallest
\* creation time of the fetched records as planStart, and its
\* planTotalUsage is the sum of the tokens of all fetched records
C32_AllObservedUsage ==
  \A c \in Callers :
    RenderedWithoutPlan(c) =>
      /\ cycles[c].planStart = Smallest(CreationTimes(cycles[c].used))
      /\ cycles[c].stats.planTotalUsage =
           SumOfTokens(cycles[c].used, Len(cycles[c].used))

\* the upper end of the plan window leaves no record out
NoneAfterPlanEnd(c) ==
  \A t \in CreationTimes(cycles[c].used) : t <= cycles[c].planEnd

\* the same for the cycles none of whose records was created after the
\* clock reading of the cycle
C32_AllObservedUntilNow ==
  \A c \in Callers :
    (RenderedWithoutPlan(c) /\ NoneAfterPlanEnd(c)) =>
      /\ cycles[c].planStart = Smallest(CreationTimes(cycles[c].used))
      /\ cycles[c].stats.planTotalUsage =
           SumOfTokens(cycles[c].used, Len(cycles[c].used))

\* the smallest creation time is passed as planStart in every such cycle
C32_MinimumPassed ==
  \A c \in Callers :
    RenderedWithoutPlan(c) =>
      cycles[c].planStart = Smallest(CreationTimes(cycles[c].used))

(***************************************************************************)
(* Snapshot parser: the counts and the remaining time.                     *)
(***************************************************************************)
\* parseUsageData has returned a snapshot
SnapshotGiven == ppc = "done" /\ ~parsed.threw

\* C33: for a payload with a model entry the snapshot's counts satisfy
\* used = total - remaining and used + remaining = total, remaining being
\* current_interval_usage_count of the first entry and total its
\* current_interval_total_count
C33_CountsAddUp ==
  SnapshotGiven =>
    /\ parsed.snapshot.usage.remaining =
         apiData.model_remains[1].current_interval_usage_count
    /\ parsed.snapshot.usage.total =
         apiData.model_remains[1].current_interval_total_count
    /\ parsed.snapshot.usage.used =
         parsed.snapshot.usage.total - parsed.snapshot.usage.remaining
    /\ parsed.snapshot.usage.used + parsed.snapshot.usage.remaining =
         parsed.snapshot.usage.total

\* one request of three is left: two are used
C33_Witness ==
  /\ SnapshotGiven
  /\ apiData.model_remains[1].current_interval_usage_count = 1
  /\ apiData.model_remains[1].current_interval_total_count = 3
  /\ parsed.snapshot.usage.used = 2
  /\ parsed.snapshot.usage.remaining = 1

\* C34: for a duration d >= 0 in ms the remaining time is
\* hours = floor(d / 3600000) and minutes = floor((d mod 3600000) / 60000),
\* with 0 <= minutes < 60 and hours * 60 + minutes = floor(d / 60000)
C34_HoursAndMinutes ==
  (SnapshotGiven /\ apiData.model_remains[1].remains_time >= 0) =>
    /\ parsed.snapshot.remaining.hours =
         apiData.model_remains[1].remains_time \div 3600000
    /\ parsed.snapshot.remaining.minutes =
         (apiData.model_remains[1].remains_time % 3600000) \div 60000
    /\ parsed.snapshot.remaining.minutes >= 0
    /\ parsed.snapshot.remaining.minutes < 60
    /\ parsed.snapshot.remaining.hours * 60 + parsed.snapshot.remaining.minutes =
         apiData.model_remains[1].remains_time \div 60000

\* an hour and a minute are left
C34_Witness ==
  /\ SnapshotGiven
  /\ apiData.model_remains[1].remains_time = 3660000
  /\ parsed.snapshot.remaining.hours = 1
  /\ parsed.snapshot.remaining.minutes = 1

(***************************************************************************)
(* Usage aggregator: the three sums together.                              *)
(***************************************************************************)
\* the step in which calculateUsageStats runs
Aggregates == spc = "ready" /\ spc' = "done"

\* C35: over records whose token counts are not negative, the three sums
\* calculateUsageStats returns are not negative, lastDayUsage is at most
\* weeklyUsage, and the list of records is left as it was
C35_SumsOrdered ==
  [][Aggregates =>
       /\ stats'.lastDayUsage >= 0
       /\ stats'.weeklyUsage >= 0
       /\ stats'.planTotalUsage >= 0
       /\ stats'.lastDayUsage <= stats'.weeklyUsage
       /\ records' = records]_vars

\* a record of yesterday and one of today: the first counts for both sums,
\* the second for the week only
C35_Witness ==
  /\ spc = "done"
  /\ Len(records) = 2
  /\ stats.lastDayUsage > 0
  /\ stats.lastDayUsage < stats.weeklyUsage

(***************************************************************************)
(* Quota cache: a request that fails.                                      *)
(***************************************************************************)
\* the step in which the awaited request of call c fails
RequestFails(c) ==
  calls[c].pc = "await" /\ calls'[c].pc = "done" /\ calls'[c].kind = "error"

\* call c returned a payload without a request of its own
ServedFromCache(c) ==
  calls[c].pc = "done" /\ calls[c].kind = "ok" /\ calls[c].reqs = 0

\* C36: a call whose request fails leaves the payload and the fetch time of
\* the cache as they are, and a call that returns a payload without a
\* request returns the cached one less than cacheTimeout after its fetch
\* time: no failure makes an expired payload come back
C36_FailureLeavesCache ==
  /\ [][\A c \in Callers : RequestFails(c) => cache' = cache]_vars
  /\ [](\A c \in Callers :
          ServedFromCache(c) =>
            /\ calls[c].data = calls[c].seen.data
            /\ AgeSeen(c) < cacheTimeout)

\* the request of a call that found the cached payload expired has failed,
\* and the cache is what the call found
C36_Witness ==
  \E c \in Callers :
    /\ calls[c].pc = "done"
    /\ calls[c].kind = "error"
    /\ calls[c].reqs = 1
    /\ calls[c].seen.data # 0
    /\ AgeSeen(c) >= cacheTimeout
    /\ cache = calls[c].seen

\* the step in which the awaited request of call c answers
RequestAnswers(c) ==
  calls[c].pc = "await" /\ calls'[c].pc = "done" /\ calls'[c].kind = "ok"

\* C37: whatever the order in which overlapping calls start and settle, a
\* call that stores its payload never puts the fetch time of the cache
\* back: the entry it overwrites is not of a request that started later
C37_FetchTimeMonotone ==
  [][\A c \in Callers :
       RequestAnswers(c) => cache'.timestamp >= cache.timestamp]_vars

\* the same when the entry overwritten was not stored while the call was
\* waiting for its answer
C37_MonotoneWithoutOverlap ==
  [][\A c \in Callers :
       (RequestAnswers(c) /\ cache = calls[c].seen) =>
         cache'.timestamp >= cache.timestamp]_vars

(***************************************************************************)
(* Status line: the context percentage.                                    *)
(***************************************************************************)
\* the line was printed for a positive token count
LineShownWithTokens ==
  /\ statusline.pc = "done"
  /\ ~statusline.tokens.null
  /\ statusline.tokens.n > 0

\* Math.round(T / contextSize * 100) of the line
RoundedShare ==
  (200 * statusline.tokens.n + ContextSizeOf(statusline.modelId))
    \div (2 * ContextSizeOf(statusline.modelId))

\* C38: for a positive token count T the line shows the context percentage
\* round(T / contextSize * 100), in the colour of that number
C38_ContextPercentage ==
  LineShownWithTokens =>
    /\ statusline.shown.context
    /\ statusline.shown.percent = RoundedShare
    /\ statusline.shown.colour = ColourOf(RoundedShare)

\* the same for the token counts whose percentage does not round to 0
C38_WhenNotRoundedToZero ==
  (LineShownWithTokens /\ RoundedShare # 0) =>
    /\ statusline.shown.context
    /\ statusline.shown.percent = RoundedShare
    /\ statusline.shown.colour = ColourOf(RoundedShare)

=========================================================================
